---- MODULE Spec2Model ----
(***************************************************************************)
(* Trust-aware routing core of the 6G MANET simulation                     *)
(* (src/ns3/ns-3-dev/scratch/sixg-wigig-sim.cc): the link ledger, the      *)
(* evidence callbacks, the topology builder, the path solver and the       *)
(* heartbeat with its route installation.                                  *)
(*                                                                         *)
(* Numbers.  The program computes in IEEE doubles; the model computes in   *)
(* exact fixed point:                                                      *)
(*   trust   is an integer number of 1/TrustOne   (1.0 = 1000, 0.3 = 300); *)
(*   SNR     is an integer number of 1/SnrDen, SnrDen = SnrUnit * 10^MaxObs*)
(*           so that MaxObs steps of the moving average are exact;         *)
(*   weights are an integer number of 1/WeightOne, divisions rounded down; *)
(*   a distance is the integer part of the square root, in metres.         *)
(* uint32 node ids are integers; UINT32_MAX is the value -1, which is      *)
(* outside every node range as 2^32-1 is in the program.                   *)
(*                                                                         *)
(* The simulation state is one record (a "world"): every handler is an     *)
(* operator from a world and the handler's inputs to the world after it.   *)
(***************************************************************************)
EXTENDS Integers, Sequences, FiniteSets, TLC

\* ------------------------------------------------------------------ bounds
MaxObs == 4          \* positive SNR observations per link (exact EMA steps)
MaxDrops == 4        \* drop updates per link
MaxCalls == 3        \* UpdateMetric calls of one run of SpecLedger
MaxSteps == 3        \* events and heartbeats of one run of the simulation
MaxTicks == 4        \* heartbeats of one run with a persistent dropper
MaxNodes == 4        \* numNodes of the startup selection
MaxPicks == 3        \* numBlackholes and numFlows of the startup selection
MaxOps == 5          \* operations of one run of the file bridge

\* -------------------------------------------------------- program constants
TrustOne == 1000     \* trust 1.0 (LinkMetric::trust, m_defaultTrust)
TrustFloor == 300    \* the floor 0.3 of UpdateMetric and BuildGraph
SnrUnit == 10        \* SNR inputs are multiples of 0.1
WeightOne == 1000    \* weight 1.0 (the Baseline cost)
Alpha == 1           \* SimulationContext: routingEngine(1.0, 500.0)
Beta == 500
LedgerDefaultSnr == 20   \* BlockchainLedger::m_defaultSnr
UINT32_MAX == -1
Infinity == 2000000000   \* std::numeric_limits<double>::infinity()
HeartbeatPeriod == 100   \* MilliSeconds(100)

SnrDen == SnrUnit * (10 ^ MaxObs)

Max(a, b) == IF a >= b THEN a ELSE b
Min(a, b) == IF a <= b THEN a ELSE b
EmptyFun == [k \in {} |-> 0]

\* ------------------------------------------------------------------ state
VARIABLES
    sim,     \* the world: g_context, the routing tables and the g_ counters
    hist,    \* history: per ledger key, the positive SNR values observed,
             \* their number, the number of trust-enabled drops and the
             \* (src, dst) arguments of the direct calls that updated it
    calls,   \* history: number of operations so far
    twin,    \* the world of a second run that is fed the same events
    result   \* the outcome of the last direct call of a pure function

vars == <<sim, hist, calls, twin, result>>

\* ================================================================ ledger
\* LinkMetric() : movingAvgSnr(0.0), drops(0), trust(1.0)
LinkMetric == [movingAvgSnr |-> 0, drops |-> 0, trust |-> TrustOne]

\* Mutant: the key keeps the order of the arguments.
MakeKeyOrdered(a, b) == <<a, b>>

\* std::make_pair(std::min(a, b), std::max(a, b))
MakeKey(a, b) == <<Min(a, b), Max(a, b)>>

\* Mutant: the halving without the safety floor.
PenalizeNoFloor(trust) == trust \div 2
\* Mutant: the floor one halving too low (0.25).
PenalizeLowFloor(trust) == IF trust \div 2 >= 250 THEN trust \div 2 ELSE 250

\* Mutant: the floor is applied to the trust before it is halved.
PenalizeFloorFirst(trust) == Max(TrustFloor, trust) \div 2

\* metric.trust = std::max(0.3, metric.trust * 0.5)
Penalize(trust) == Max(TrustFloor, trust \div 2)

\* Mutant: the weights of the moving average add up to more than one
\* (0.7 for the new value, 0.7 for the old).
EmaOverweight(snr, avg) == (7 * snr + 7 * avg) \div 10

\* Mutant: the factor of the moving average is 0.2.
EmaSlow(snr, avg) == (2 * snr + 8 * avg) \div 10

\* metric.movingAvgSnr = alpha * snr + (1.0 - alpha) * metric.movingAvgSnr
Ema(snr, avg) == (3 * snr + 7 * avg) \div 10

\* The record of key once m_ledger[key] has materialized it.
Materialized(l, key) == IF key \in DOMAIN l THEN l[key] ELSE LinkMetric

\* Mutant: a successful reception wins back trust.
UpdateMetricRecovering(l, src, dst, snr, isDrop, useBlockchain) ==
    LET key == MakeKey(src, dst)
        m0 == Materialized(l, key)
        m1 == IF snr > 0
              THEN [m0 EXCEPT !.movingAvgSnr = Ema(snr, m0.movingAvgSnr),
                              !.trust = Min(TrustOne, 2 * @)]
              ELSE m0
        m2 == IF isDrop /\ useBlockchain
              THEN [m1 EXCEPT !.drops = @ + 1, !.trust = Penalize(@)]
              ELSE IF isDrop THEN [m1 EXCEPT !.drops = @ + 1] ELSE m1
    IN  [k \in (DOMAIN l) \cup {key} |-> IF k = key THEN m2 ELSE l[k]]
\* Mutant: a drop is penalized in either mode.
UpdateMetricIgnoringMode(l, src, dst, snr, isDrop, useBlockchain) ==
    LET key == MakeKey(src, dst)
        m0 == Materialized(l, key)
        m1 == IF snr > 0
              THEN [m0 EXCEPT !.movingAvgSnr = Ema(snr, m0.movingAvgSnr)]
              ELSE m0
        m2 == IF isDrop
              THEN [m1 EXCEPT !.drops = @ + 1, !.trust = Penalize(@)]
              ELSE m1
    IN  [k \in (DOMAIN l) \cup {key} |-> IF k = key THEN m2 ELSE l[k]]

\* Mutant: a successful reception restores the trust of the link to 1.0.
UpdateMetricForgiving(l, src, dst, snr, isDrop, useBlockchain) ==
    LET key == MakeKey(src, dst)
        m0 == Materialized(l, key)
        m1 == IF snr > 0
              THEN [m0 EXCEPT !.movingAvgSnr = Ema(snr, m0.movingAvgSnr),
                              !.trust = TrustOne]
              ELSE m0
        m2 == IF isDrop /\ useBlockchain
              THEN [m1 EXCEPT !.drops = @ + 1, !.trust = Penalize(@)]
              ELSE IF isDrop THEN [m1 EXCEPT !.drops = @ + 1] ELSE m1
    IN  [k \in (DOMAIN l) \cup {key} |-> IF k = key THEN m2 ELSE l[k]]

\* BlockchainLedger::UpdateMetric: the ledger after the call.
UpdateMetric(l, src, dst, snr, isDrop, useBlockchain) ==
    LET key == MakeKey(src, dst)
        m0 == Materialized(l, key)
        m1 == IF snr > 0
              THEN [m0 EXCEPT !.movingAvgSnr = Ema(snr, m0.movingAvgSnr)]
              ELSE m0
        m2 == IF isDrop /\ useBlockchain
              THEN [m1 EXCEPT !.drops = @ + 1, !.trust = Penalize(@)]
              ELSE IF isDrop
                   THEN [m1 EXCEPT !.drops = @ + 1]
                   ELSE m1
    IN  [k \in (DOMAIN l) \cup {key} |-> IF k = key THEN m2 ELSE l[k]]

\* Mutant: the counter of penalties counts the drops of either mode.
PenaltyCountAnyDrop(isDrop, useBlockchain) == IF isDrop THEN 1 ELSE 0

\* g_trustPenalties++ of UpdateMetric: the increment of one call.
PenaltyCount(isDrop, useBlockchain) == IF isDrop /\ useBlockchain THEN 1 ELSE 0

\* BlockchainLedger::GetTrust
GetTrust(l, src, dst) ==
    LET key == MakeKey(src, dst)
    IN  IF key \in DOMAIN l THEN l[key].trust ELSE TrustOne

\* BlockchainLedger::GetSnr
GetSnr(l, src, dst) ==
    LET key == MakeKey(src, dst)
    IN  IF key \in DOMAIN l /\ l[key].movingAvgSnr > 0
        THEN l[key].movingAvgSnr
        ELSE LedgerDefaultSnr * SnrDen

\* Mutant: a link at the floor counts as a low-trust link.
IsLowTrustAtFloor(trust) == trust <= TrustFloor

\* IsBlackhole: pair.second.trust < 0.3
IsLowTrust(trust) == trust < TrustFloor

\* IsBlackhole: the loop over m_ledger, as <<lowTrustLinks, totalLinks>> for
\* the records of the keys still to visit.
RECURSIVE CountLinks(_, _, _)
CountLinks(l, keys, nodeId) ==
    IF keys = {} THEN <<0, 0>>
    ELSE LET k == CHOOSE x \in keys : TRUE
             c == CountLinks(l, keys \ {k}, nodeId)
         IN  IF k[1] = nodeId \/ k[2] = nodeId
             THEN <<c[1] + (IF IsLowTrust(l[k].trust) THEN 1 ELSE 0), c[2] + 1>>
             ELSE c

\* BlockchainLedger::IsBlackhole: lowTrustLinks / totalLinks > 0.5
IsBlackhole(l, nodeId) ==
    LET c == CountLinks(l, DOMAIN l, nodeId)
    IN  c[2] > 0 /\ 2 * c[1] > c[2]

\* ------------------------------------------------------------- history
NoHist == [seen |-> {}, nobs |-> 0, penalties |-> 0, callers |-> {}]
HistOf(h, key) == IF key \in DOMAIN h THEN h[key] ELSE NoHist
Record(h, src, dst, snr, isDrop, useBlockchain, direct) ==
    LET key == MakeKey(src, dst)
        h0 == HistOf(h, key)
        h1 == [seen |-> IF snr > 0 THEN h0.seen \cup {snr} ELSE h0.seen,
               nobs |-> IF snr > 0 THEN h0.nobs + 1 ELSE h0.nobs,
               penalties |-> h0.penalties + PenaltyCount(isDrop, useBlockchain),
               callers |-> IF direct THEN h0.callers \cup {<<src, dst>>}
                           ELSE h0.callers]
    IN  [k \in (DOMAIN h) \cup {key} |-> IF k = key THEN h1 ELSE h[k]]

\* The guard that keeps the counters of a link within the bounds.
Within(l, h, src, dst, snr, isDrop) ==
    LET key == MakeKey(src, dst)
    IN  /\ snr > 0 => HistOf(h, key).nobs < MaxObs
        /\ isDrop => Materialized(l, key).drops < MaxDrops

\* ================================================================= world
\* Ipv4InterfaceContainer::GetAddress(i): host i+1 of 10.1.0.0/16.
GetAddress(i) == i + 1

\* The world after construction and main's setup, for a configuration.
NewWorld(pos, flows, blackholes, range, dsnr, ub) ==
    [pos |-> pos,
     activeFlows |-> flows,
     blackholeNodes |-> blackholes,
     maxRadioRange |-> range,
     defaultSnr |-> dsnr,
     useBlockchain |-> ub,
     m_ledger |-> EmptyFun,
     m_graph |-> EmptyFun,
     m_weights |-> EmptyFun,
     routes |-> [n \in DOMAIN pos |-> <<>>],
     lastPaths |-> [f \in DOMAIN flows |-> <<>>],
     g_phyDrops |-> 0,
     g_l3Drops |-> 0,
     g_blackholeL3Drops |-> 0,
     g_routeSkips |-> 0,
     g_trustPenalties |-> 0,
     g_maliciousDrops |-> 0,
     ticks |-> 0,
     now |-> 0,
     events |-> {},
     nextUid |-> 0,
     stopped |-> FALSE,
     aborted |-> FALSE]

\* ============================================================= simulator
\* Simulator::Schedule(delay, handler): the event is queued for now + delay
\* with the next uid.  Times are in milliseconds.
Schedule(w, delay, kind) ==
    [w EXCEPT !.events = @ \cup {[time |-> w.now + delay, uid |-> w.nextUid,
                                  kind |-> kind]},
              !.nextUid = @ + 1]

\* main: Simulator::Schedule(Seconds(0.0), &SimulationHeartbeat), then
\* Simulator::Stop(Seconds(simTime)).
Started(w, simTime) == Schedule(Schedule(w, 0, "heartbeat"), simTime, "stop")

\* Simulator::Run: the next event is the earliest, the one scheduled first
\* among those of the same time.
NextEvent(w) ==
    CHOOSE e \in w.events :
        \A o \in w.events :
            e.time < o.time \/ (e.time = o.time /\ e.uid <= o.uid)
HasNext(w, kind) ==
    /\ ~w.stopped
    /\ ~w.aborted
    /\ w.events # {}
    /\ NextEvent(w).kind = kind
\* Simulator::Run: the world when the handler of the next event is invoked.
Dequeue(w) ==
    [w EXCEPT !.now = NextEvent(w).time, !.events = @ \ {NextEvent(w)}]
\* Mutant: the stop event does not end the event loop.
SimulatorStopIgnored(w) == w

\* Simulator::Stop(): the event loop ends; what is queued stays queued.
SimulatorStop(w) == [w EXCEPT !.stopped = TRUE]

\* ============================================================== topology
\* dx*dx + dy*dy + dz*dz of two positions (z is 0 for every node).
Dist2(p, q) == (p[1] - q[1]) * (p[1] - q[1]) + (p[2] - q[2]) * (p[2] - q[2])

\* std::sqrt, rounded down to whole metres.
RECURSIVE SqrtFrom(_, _)
SqrtFrom(n, r) == IF (r + 1) * (r + 1) > n THEN r ELSE SqrtFrom(n, r + 1)
\* The search starts from the larger of |dx| and |dy|, which the root is not below.
Distance(p, q) ==
    SqrtFrom(Dist2(p, q),
             Max(Max(p[1] - q[1], q[1] - p[1]), Max(p[2] - q[2], q[2] - p[2])))

\* Mutant: the distance is rounded down to whole metres and may equal the range.
InRangeRounded(p, q, maxRange) == Distance(p, q) <= maxRange

\* Mutant: a pair at exactly the range is in range.
InRangeInclusive(p, q, maxRange) == Dist2(p, q) <= maxRange * maxRange

\* distance < maxRange
InRange(p, q, maxRange) == Dist2(p, q) < maxRange * maxRange

\* Mutant: Proposed mode leaves a link at the trust floor out of the graph.
LinkUsableTrusted(pos, l, i, j, maxRange, useBlockchain) ==
    /\ InRange(pos[i], pos[j], maxRange)
    /\ useBlockchain => GetTrust(l, i, j) > TrustFloor

\* BuildGraph: the condition under which the pair (i, j) gets an edge.
LinkUsable(pos, l, i, j, maxRange, useBlockchain) ==
    InRange(pos[i], pos[j], maxRange)

\* Mutant: the cost ignores the trust of the link.
EdgeCostNoTrust(trust0, snr0, defaultSnr, useBlockchain) ==
    IF useBlockchain
    THEN (Alpha * SnrDen * WeightOne) \div snr0 + Beta * WeightOne
    ELSE WeightOne

\* Mutant: the Proposed cost is used in either mode.
EdgeCostIgnoringMode(trust0, snr0, defaultSnr, useBlockchain) ==
    (Alpha * SnrDen * WeightOne) \div (IF snr0 <= 0 THEN defaultSnr * SnrDen ELSE snr0)
    + (Beta * TrustOne * WeightOne) \div Max(TrustFloor, trust0)

\* BuildGraph: the cost of an edge from the ledger's trust and SNR.
EdgeCost(trust0, snr0, defaultSnr, useBlockchain) ==
    LET snr == IF snr0 <= 0 THEN defaultSnr * SnrDen ELSE snr0
        trust1 == IF trust0 <= 0 THEN TrustOne ELSE trust0
        trust == IF trust1 < TrustFloor THEN TrustFloor ELSE trust1
    IN  IF useBlockchain
        THEN (Alpha * SnrDen * WeightOne) \div snr
             + (Beta * TrustOne * WeightOne) \div trust
        ELSE WeightOne

\* Mutant: an edge touching a node of the blackhole set costs as if its
\* trust were at the floor.
LinkCostKnowingBlackholes(l, i, j, blackholeNodes, defaultSnr, useBlockchain) ==
    EdgeCost(IF i \in blackholeNodes \/ j \in blackholeNodes
             THEN TrustFloor ELSE GetTrust(l, i, j),
             GetSnr(l, i, j), defaultSnr, useBlockchain)

\* BuildGraph: the cost of the edge (i, j); blackholeNodes is passed to
\* BuildGraph and not read.
LinkCost(l, i, j, blackholeNodes, defaultSnr, useBlockchain) ==
    EdgeCost(GetTrust(l, i, j), GetSnr(l, i, j), defaultSnr, useBlockchain)

\* RoutingEngine::BuildGraph: m_graph and m_weights after the call.
BuildGraph(pos, l, maxRange, blackholeNodes, defaultSnr, useBlockchain) ==
    LET edges == {e \in (DOMAIN pos) \X (DOMAIN pos) :
                    /\ e[1] < e[2]
                    /\ LinkUsable(pos, l, e[1], e[2], maxRange, useBlockchain)}
        both == edges \cup {<<e[2], e[1]>> : e \in edges}
    IN  [m_graph |-> [n \in {e[1] : e \in both} |->
                        {e[2] : e \in {x \in both : x[1] = n}}],
         m_weights |-> [e \in both |->
                        LinkCost(l, Min(e[1], e[2]), Max(e[1], e[2]),
                                 blackholeNodes, defaultSnr, useBlockchain)]]

\* ================================================================= paths
\* dist[u] + weight in doubles: infinity absorbs.
Plus(a, b) == IF a = Infinity \/ b = Infinity THEN Infinity ELSE a + b

\* Mutant: among the unvisited nodes of minimum distance the one with the
\* largest id is taken.
PickMinLargestId(dist, unvisited) ==
    LET cand == {n \in unvisited : dist[n] < Infinity}
    IN  IF cand = {} THEN UINT32_MAX
        ELSE CHOOSE u \in cand :
               \A n \in cand : dist[u] < dist[n] \/ (dist[u] = dist[n] /\ u >= n)

\* CalculatePath: the scan of unvisited (a std::set, in ascending order) with
\* the test dist[node] < minDist: the unvisited node with the minimum
\* distance, the first of them; UINT32_MAX when none is below infinity.
PickMin(dist, unvisited) ==
    LET cand == {n \in unvisited : dist[n] < Infinity}
    IN  IF cand = {} THEN UINT32_MAX
        ELSE CHOOSE u \in cand :
               \A n \in cand : dist[u] < dist[n] \/ (dist[u] = dist[n] /\ u <= n)

\* Mutant: a neighbour's distance is set when it is first reached and never
\* improved.
ShouldRelaxFirstOnly(alt, old) == old = Infinity /\ alt < old

\* CalculatePath: if (alt < dist[v])
ShouldRelax(alt, old) == alt < old

\* CalculatePath: the while loop; the record of dist and prev after it, and
\* in picks the node u found by every scan with the dist and the unvisited
\* set it was found in.
RECURSIVE DijkstraLoop(_, _, _, _, _, _)
DijkstraLoop(graph, weights, dest, dist, prev, unvisited) ==
    LET u == PickMin(dist, unvisited)
        pick == [u |-> u, dist |-> dist, unvisited |-> unvisited]
    IN  IF unvisited = {} \/ u = UINT32_MAX
        THEN [dist |-> dist, prev |-> prev, picks |-> <<>>]
        ELSE IF u = dest
        THEN [dist |-> dist, prev |-> prev, picks |-> <<pick>>]
        ELSE LET rest == unvisited \ {u}
                 alt(v) == Plus(dist[u], IF <<u, v>> \in DOMAIN weights
                                         THEN weights[<<u, v>>] ELSE Infinity)
                 better == {v \in graph[u] \cap rest : ShouldRelax(alt(v), dist[v])}
                 r == DijkstraLoop(graph, weights, dest,
                                   [n \in DOMAIN dist |->
                                      IF n \in better THEN alt(n) ELSE dist[n]],
                                   [n \in DOMAIN prev |->
                                      IF n \in better THEN u ELSE prev[n]],
                                   rest)
             IN  [r EXCEPT !.picks = <<pick>> \o @]

\* CalculatePath: the path read backwards from current along prev.
RECURSIVE Backtrack(_, _)
Backtrack(prev, current) ==
    IF current = UINT32_MAX THEN <<>>
    ELSE Append(Backtrack(prev, prev[current]), current)

\* Mutant: a node missing from the graph is taken to be one hop away.
CalculatePathDirect(graph, weights, source, dest) ==
    IF source \notin DOMAIN graph \/ dest \notin DOMAIN graph
    THEN <<source, dest>>
    ELSE LET r == DijkstraLoop(graph, weights, dest,
                     [n \in DOMAIN graph |-> IF n = source THEN 0 ELSE Infinity],
                     [n \in DOMAIN graph |-> UINT32_MAX],
                     DOMAIN graph)
         IN  IF r.dist[dest] # Infinity THEN Backtrack(r.prev, dest) ELSE <<>>

\* CalculatePath: the nodes found by the scans of the while loop, in order.
Picks(graph, weights, source, dest) ==
    IF source \notin DOMAIN graph \/ dest \notin DOMAIN graph
    THEN <<>>
    ELSE DijkstraLoop(graph, weights, dest,
                      [n \in DOMAIN graph |-> IF n = source THEN 0 ELSE Infinity],
                      [n \in DOMAIN graph |-> UINT32_MAX],
                      DOMAIN graph).picks

\* RoutingEngine::CalculatePath
CalculatePath(graph, weights, source, dest) ==
    IF source \notin DOMAIN graph \/ dest \notin DOMAIN graph
    THEN <<>>
    ELSE LET r == DijkstraLoop(graph, weights, dest,
                     [n \in DOMAIN graph |-> IF n = source THEN 0 ELSE Infinity],
                     [n \in DOMAIN graph |-> UINT32_MAX],
                     DOMAIN graph)
         IN  IF r.dist[dest] # Infinity THEN Backtrack(r.prev, dest) ELSE <<>>

\* ============================================================= callbacks
\* A context string is a sequence of tokens: "NL" is the text "/NodeList/",
\* "/" a slash, " " a blank, "+" and "-" the signs, "0" .. "9" the digits
\* and "x" any other character.
DigitText == <<"0", "1", "2", "3", "4", "5", "6", "7", "8", "9">>
DigitVal == [c \in {"0", "1", "2", "3", "4", "5", "6", "7", "8", "9"} |->
               CASE c = "0" -> 0 [] c = "1" -> 1 [] c = "2" -> 2 [] c = "3" -> 3
                 [] c = "4" -> 4 [] c = "5" -> 5 [] c = "6" -> 6 [] c = "7" -> 7
                 [] c = "8" -> 8 [] c = "9" -> 9]

\* std::string::find(tok, from): the first index at or after from, 0 for npos.
RECURSIVE Find(_, _, _)
Find(str, tok, from) ==
    IF from > Len(str) THEN 0
    ELSE IF str[from] = tok THEN from ELSE Find(str, tok, from + 1)

\* The low 32 bits of 10 * v + d, v and the result as the halves
\* <<high 16 bits, low 16 bits>>: what static_cast<uint32_t> keeps of the
\* unsigned long (64 bits) that std::stoul accumulates.
TimesTenPlus(v, d) ==
    LET lo == v[2] * 10 + d
        hi == v[1] * 10 + lo \div 65536
    IN  <<hi % 65536, lo % 65536>>

\* The uint32 of the halves v: the values from 2^31 on are the numbers
\* v - 2^32 below 0, as UINT32_MAX is -1.
Uint32(v) ==
    IF v[1] < 32768 THEN v[1] * 65536 + v[2]
    ELSE (v[1] - 65536) * 65536 + v[2]

\* 0 - v in uint32.
Negated(id) == IF id = (0 - 32768) * 65536 THEN id ELSE 0 - id

\* The value of the longest prefix of digits of str from index i on, as
\* <<halves of the low 32 bits of the value, number of digits>>.
RECURSIVE Digits(_, _, _, _)
Digits(str, i, acc, n) ==
    IF i <= Len(str) /\ str[i] \in DOMAIN DigitVal
    THEN Digits(str, i + 1, TimesTenPlus(acc, DigitVal[str[i]]), n + 1)
    ELSE <<acc, n>>

\* static_cast<uint32_t>(std::stoul(str)): leading blanks are skipped, one
\* sign is accepted, the digits are read as far as they go; without a digit
\* std::invalid_argument is thrown.  The number is an unsigned long of 64
\* bits, which the numbers of the model (ten digits at most) do not exceed;
\* the cast keeps its low 32 bits.  A negative number -v is 2^32 - v.
RECURSIVE SkipBlanks(_, _)
SkipBlanks(str, i) ==
    IF i <= Len(str) /\ str[i] = " " THEN SkipBlanks(str, i + 1) ELSE i
Stoul(str) ==
    LET i == SkipBlanks(str, 1)
        signed == i <= Len(str) /\ str[i] \in {"+", "-"}
        d == Digits(str, IF signed THEN i + 1 ELSE i, <<0, 0>>, 0)
    IN  IF d[2] = 0 THEN [threw |-> TRUE, id |-> UINT32_MAX]
        ELSE [threw |-> FALSE,
              id |-> IF signed /\ str[i] = "-" THEN Negated(Uint32(d[1]))
                     ELSE Uint32(d[1])]

\* ParseNodeIdFromContext
ParseNodeIdFromContext(context) ==
    LET nodeListPos == Find(context, "NL", 1)
        startPos == nodeListPos + 1
        endPos == Find(context, "/", startPos)
    IN  IF nodeListPos = 0 THEN [threw |-> FALSE, id |-> UINT32_MAX]
        ELSE IF endPos = 0 THEN [threw |-> FALSE, id |-> UINT32_MAX]
        ELSE Stoul(SubSeq(context, startPos, endPos - 1))

\* receivingNodeId == UINT32_MAX || receivingNodeId >= g_context.nodes.GetN()
\* (an id below 0 stands for a value of 2^32 - v, above every node count)
InvalidNode(w, id) == id = UINT32_MAX \/ id < 0 \/ id >= Cardinality(DOMAIN w.pos)

\* The callbacks' search of activeFlows for the flow whose destination is the
\* receiver: its source, UINT32_MAX when there is none.
RECURSIVE FlowSourceFrom(_, _, _)
FlowSourceFrom(flows, receiver, f) ==
    IF f > Len(flows) THEN UINT32_MAX
    ELSE IF flows[f][2] = receiver THEN flows[f][1]
    ELSE FlowSourceFrom(flows, receiver, f + 1)
FlowSource(w, receiver) == FlowSourceFrom(w.activeFlows, receiver, 1)

\* Ipv4L3DropCallback: the node whose address is srcAddr, UINT32_MAX when
\* there is none.
AddressOwner(w, srcAddr) ==
    LET owners == {i \in DOMAIN w.pos : GetAddress(i) = srcAddr}
    IN  IF owners = {} THEN UINT32_MAX
        ELSE CHOOSE i \in owners : \A j \in owners : i <= j

\* Mutant: the estimate is not raised to 5.0.
EstimatedSnrNoFloor(w, i, j) ==
    w.defaultSnr * SnrDen - (Distance(w.pos[i], w.pos[j]) * SnrDen) \div 10

\* estimatedSnr = defaultSnr - (distance / 10.0), at least 5.0
EstimatedSnr(w, i, j) ==
    Max(5 * SnrDen,
        w.defaultSnr * SnrDen - (Distance(w.pos[i], w.pos[j]) * SnrDen) \div 10)

\* Mutant: the loop updates the pair of every node other than the receiver,
\* whatever the distance.
RECURSIVE FanOutAnyRange(_, _, _, _)
FanOutAnyRange(w, receiver, i, isDrop) ==
    IF i >= Cardinality(DOMAIN w.pos) THEN <<>>
    ELSE IF i # receiver
         THEN <<[src |-> i, dst |-> receiver, isDrop |-> isDrop,
                 snr |-> IF isDrop THEN 0 ELSE EstimatedSnr(w, i, receiver)]>>
              \o FanOutAnyRange(w, receiver, i + 1, isDrop)
         ELSE FanOutAnyRange(w, receiver, i + 1, isDrop)

\* The UpdateMetric calls of the loop over every node i other than the
\* receiver within maxRadioRange of it, from node i on, in order.
RECURSIVE FanOutFrom(_, _, _, _)
FanOutFrom(w, receiver, i, isDrop) ==
    IF i >= Cardinality(DOMAIN w.pos) THEN <<>>
    ELSE IF i # receiver /\ InRange(w.pos[i], w.pos[receiver], w.maxRadioRange)
         THEN <<[src |-> i, dst |-> receiver, isDrop |-> isDrop,
                 snr |-> IF isDrop THEN 0 ELSE EstimatedSnr(w, i, receiver)]>>
              \o FanOutFrom(w, receiver, i + 1, isDrop)
         ELSE FanOutFrom(w, receiver, i + 1, isDrop)

\* Mutant: the loop over the nodes in range runs also when the source is known.
LinkUpdatesFanOut(w, source, receiver, isDrop) == FanOutFrom(w, receiver, 0, isDrop)

\* The UpdateMetric calls of a callback whose source node is source, or
\* unknown (UINT32_MAX).
LinkUpdates(w, source, receiver, isDrop) ==
    IF source # UINT32_MAX
    THEN <<[src |-> source, dst |-> receiver, isDrop |-> isDrop,
            snr |-> IF isDrop THEN 0 ELSE EstimatedSnr(w, source, receiver)]>>
    ELSE FanOutFrom(w, receiver, 0, isDrop)

\* The world after the UpdateMetric calls ups, made with g_context.useBlockchain.
RECURSIVE ApplyUpdates(_, _)
ApplyUpdates(w, ups) ==
    IF ups = <<>> THEN w
    ELSE ApplyUpdates(
           [w EXCEPT
              !.m_ledger = UpdateMetric(@, Head(ups).src, Head(ups).dst,
                                        Head(ups).snr, Head(ups).isDrop,
                                        w.useBlockchain),
              !.g_trustPenalties = @ + PenaltyCount(Head(ups).isDrop,
                                                    w.useBlockchain)],
           Tail(ups))

\* The UpdateMetric calls of each callback for a valid receiver.
RxEndUpdates(w, receiver) ==
    LinkUpdates(w, FlowSource(w, receiver), receiver, FALSE)
RxDropUpdates(w, receiver) ==
    LinkUpdates(w, FlowSource(w, receiver), receiver, TRUE)
L3DropUpdates(w, receiver, srcAddr) ==
    LinkUpdates(w, AddressOwner(w, srcAddr), receiver, TRUE)

\* A callback that lets the exception of std::stoul escape ends the program.
Terminate(w) == [w EXCEPT !.aborted = TRUE]

\* PhyRxEndCallback
PhyRxEndCallback(w, context) ==
    LET p == ParseNodeIdFromContext(context)
    IN  IF p.threw THEN Terminate(w)
        ELSE IF InvalidNode(w, p.id) THEN w
        ELSE ApplyUpdates(w, RxEndUpdates(w, p.id))

\* Mutant: every L3 drop counts as a malicious drop, whoever dropped.
Ipv4L3DropCallbackCountingAll(w, context, srcAddr) ==
    LET p == ParseNodeIdFromContext(context)
        isExplicitBlackhole == p.id \in w.blackholeNodes
    IN  IF p.threw THEN Terminate(w)
        ELSE IF InvalidNode(w, p.id) THEN w
        ELSE ApplyUpdates(
               [w EXCEPT
                  !.g_l3Drops = @ + 1,
                  !.g_maliciousDrops = @ + 1,
                  !.g_blackholeL3Drops = IF isExplicitBlackhole THEN @ + 1 ELSE @],
               L3DropUpdates(w, p.id, srcAddr))

\* Mutant: an L3 drop rebuilds the graph from the ledger it has just updated.
Ipv4L3DropCallbackRerouting(w, context, srcAddr) ==
    LET p == ParseNodeIdFromContext(context)
        isExplicitBlackhole == p.id \in w.blackholeNodes
        after == ApplyUpdates(
                   [w EXCEPT
                      !.g_l3Drops = @ + 1,
                      !.g_maliciousDrops = IF isExplicitBlackhole THEN @ + 1 ELSE @,
                      !.g_blackholeL3Drops = IF isExplicitBlackhole THEN @ + 1 ELSE @],
                   L3DropUpdates(w, p.id, srcAddr))
        g == BuildGraph(after.pos, after.m_ledger, after.maxRadioRange,
                        after.blackholeNodes, after.defaultSnr, after.useBlockchain)
    IN  IF p.threw THEN Terminate(w)
        ELSE IF InvalidNode(w, p.id) THEN w
        ELSE [after EXCEPT !.m_graph = g.m_graph, !.m_weights = g.m_weights]

\* Ipv4L3DropCallback; srcAddr is header.GetSource()
Ipv4L3DropCallback(w, context, srcAddr) ==
    LET p == ParseNodeIdFromContext(context)
        isExplicitBlackhole == p.id \in w.blackholeNodes
    IN  IF p.threw THEN Terminate(w)
        ELSE IF InvalidNode(w, p.id) THEN w
        ELSE ApplyUpdates(
               [w EXCEPT
                  !.g_l3Drops = @ + 1,
                  !.g_maliciousDrops = IF isExplicitBlackhole THEN @ + 1 ELSE @,
                  !.g_blackholeL3Drops = IF isExplicitBlackhole THEN @ + 1 ELSE @],
               L3DropUpdates(w, p.id, srcAddr))

\* PhyRxDropCallback
PhyRxDropCallback(w, context) ==
    LET p == ParseNodeIdFromContext(context)
    IN  IF p.threw THEN Terminate(w)
        ELSE IF InvalidNode(w, p.id) THEN w
        ELSE ApplyUpdates([w EXCEPT !.g_phyDrops = @ + 1],
                          RxDropUpdates(w, p.id))

\* ============================================================= heartbeat
\* Mutant: the route is added and the old routes to destIp are kept.
ReplaceRouteKeepingOld(table, destIp, nextHopIp) ==
    table \o <<[dest |-> destIp, gateway |-> nextHopIp]>>

\* Removal of the old routes to destIp, then AddHostRouteTo(destIp, nextHopIp).
ReplaceRoute(table, destIp, nextHopIp) ==
    SelectSeq(table, LAMBDA r : r.dest # destIp)
        \o <<[dest |-> destIp, gateway |-> nextHopIp]>>

\* Mutant: the route is installed on a blackhole node as on any other.
IsSkippedNever(w, node) == FALSE

\* SimulationHeartbeat: blackholeNodes.find(currentNode) != end()
IsSkipped(w, node) == node \in w.blackholeNodes

\* SimulationHeartbeat: the loop over path[i], i from the given index to the
\* last but one, for the flow to dest.
RECURSIVE InstallPath(_, _, _, _)
InstallPath(w, path, i, dest) ==
    IF i > Len(path) - 1 THEN w
    ELSE IF IsSkipped(w, path[i])
         THEN InstallPath([w EXCEPT !.g_routeSkips = @ + 1,
                                    !.g_maliciousDrops = @ + 1],
                          path, i + 1, dest)
         ELSE InstallPath([w EXCEPT !.routes[path[i]] =
                               ReplaceRoute(@, GetAddress(dest),
                                            GetAddress(path[i + 1]))],
                          path, i + 1, dest)

\* SimulationHeartbeat: the loop over activeFlows from flow f on.
RECURSIVE InstallFlows(_, _)
InstallFlows(w, f) ==
    IF f > Len(w.activeFlows) THEN w
    ELSE LET source == w.activeFlows[f][1]
             dest == w.activeFlows[f][2]
             path == CalculatePath(w.m_graph, w.m_weights, source, dest)
             w1 == [w EXCEPT !.lastPaths[f] = path]
         IN  InstallFlows(IF Len(path) > 1 THEN InstallPath(w1, path, 1, dest)
                          ELSE w1,
                          f + 1)

\* Mutant: the tick schedules two next ticks.
RescheduleTwice(w) ==
    Schedule(Schedule(w, HeartbeatPeriod, "heartbeat"), HeartbeatPeriod, "heartbeat")
\* Mutant: the tick schedules the next tick a period late.
RescheduleLate(w) == Schedule(w, 2 * HeartbeatPeriod, "heartbeat")

\* Simulator::Schedule(MilliSeconds(100), &SimulationHeartbeat)
Reschedule(w) == Schedule(w, HeartbeatPeriod, "heartbeat")

\* Mutant: BuildGraph does not clear m_graph and m_weights: the edges of the
\* earlier ticks stay, with their weights unless they are computed anew.
SimulationHeartbeatKeepingGraph(w) ==
    LET g == BuildGraph(w.pos, w.m_ledger, w.maxRadioRange, w.blackholeNodes,
                        w.defaultSnr, w.useBlockchain)
        graph == [n \in (DOMAIN w.m_graph) \cup (DOMAIN g.m_graph) |->
                    (IF n \in DOMAIN w.m_graph THEN w.m_graph[n] ELSE {})
                    \cup (IF n \in DOMAIN g.m_graph THEN g.m_graph[n] ELSE {})]
        weights == [e \in (DOMAIN w.m_weights) \cup (DOMAIN g.m_weights) |->
                      IF e \in DOMAIN g.m_weights THEN g.m_weights[e]
                      ELSE w.m_weights[e]]
    IN  Reschedule(InstallFlows([w EXCEPT !.m_graph = graph,
                                          !.m_weights = weights,
                                          !.ticks = @ + 1], 1))

\* SimulationHeartbeat
SimulationHeartbeat(w) ==
    LET g == BuildGraph(w.pos, w.m_ledger, w.maxRadioRange, w.blackholeNodes,
                        w.defaultSnr, w.useBlockchain)
    IN  Reschedule(InstallFlows([w EXCEPT !.m_graph = g.m_graph,
                                          !.m_weights = g.m_weights,
                                          !.ticks = @ + 1], 1))

\* ================================================================= setup
\* static_cast<uint32_t>(rng->GetValue(0, size - 1)): GetValue(min, max) is
\* min + u * (max - min) for a uniform u in [0, 1), so the index is 0 for a
\* set of one element and any of 0 .. size - 2 for a larger one.
RngIndex(size) == IF size <= 1 THEN {0} ELSE 0 .. (size - 2)

\* auto it = set.begin(); std::advance(it, idx); *it
Nth(set, idx) == CHOOSE x \in set : Cardinality({y \in set : y < x}) = idx

\* main, after the loop that fills candidateNodes with 0 .. numNodes - 1.
NewSetup(numNodes, numFlows, numBlackholes) ==
    [numNodes |-> numNodes,
     numFlows |-> numFlows,
     numBlackholes |-> numBlackholes,
     candidateNodes |-> 0 .. (numNodes - 1),
     blackholeNodes |-> {},
     availableNodes |-> {},
     activeFlows |-> <<>>,
     i |-> 0,
     pc |-> "blackholes"]

\* The condition of the loop over the malicious nodes.
MoreBlackholes(s) == s.i < s.numBlackholes /\ s.candidateNodes # {}

\* One iteration of the loop over the malicious nodes, for the random index.
AfterBlackhole(s, idx) ==
    LET maliciousId == Nth(s.candidateNodes, idx)
    IN  [s EXCEPT !.candidateNodes = @ \ {maliciousId},
                  !.blackholeNodes = @ \cup {maliciousId},
                  !.i = @ + 1]

\* Mutant: every node is available as an endpoint of a flow.
WithAvailableNodesAll(s) ==
    [s EXCEPT !.availableNodes = 0 .. (s.numNodes - 1), !.i = 0, !.pc = "flows"]

\* The loop that fills availableNodes with the nodes not in blackholeNodes.
WithAvailableNodes(s) ==
    [s EXCEPT !.availableNodes = {n \in 0 .. (s.numNodes - 1) :
                                     n \notin s.blackholeNodes},
              !.i = 0,
              !.pc = "flows"]

\* The condition of the loop over the flows.
MoreFlows(s) == s.i < s.numFlows /\ Cardinality(s.availableNodes) >= 2

\* Mutant: the destination of a flow stays available.
AfterFlowKeepingDest(s, sourceIdx, destIdx) ==
    LET source == Nth(s.availableNodes, sourceIdx)
        rest == s.availableNodes \ {source}
        dest == Nth(rest, destIdx)
    IN  [s EXCEPT !.availableNodes = rest,
                  !.activeFlows = Append(@, <<source, dest>>),
                  !.i = @ + 1]

\* One iteration of the loop over the flows, for the two random indices; the
\* break on an empty availableNodes ends the loop without a flow.
AfterFlow(s, sourceIdx, destIdx) ==
    LET source == Nth(s.availableNodes, sourceIdx)
        rest == s.availableNodes \ {source}
        dest == Nth(rest, destIdx)
    IN  IF rest = {}
        THEN [s EXCEPT !.availableNodes = rest, !.pc = "done"]
        ELSE [s EXCEPT !.availableNodes = rest \ {dest},
                       !.activeFlows = Append(@, <<source, dest>>),
                       !.i = @ + 1]

\* =========================================================== file bridge
\* SimpleBlockchain (src/test_ns3_blocksim/integration): the bridge to
\* BlockSim over two files.  A std::string is the sequence of its
\* characters, a position counts from 0 as in the program, and
\* std::string::npos, the largest size_t, is -1: npos + 1 is 0 as in the
\* program, and a negative length or position stands for one beyond every
\* string.  Times are in milliseconds.
Npos == -1
Quote == <<"\"">>
TxIdKey == <<"\"", "t", "x", "_", "i", "d", "\"", ":">>
ValidatedKey == <<"\"", "v", "a", "l", "i", "d", "a", "t", "e", "d", "\"", ":">>
TrueText == <<"t", "r", "u", "e">>
FalseText == <<"f", "a", "l", "s", "e">>

\* std::string::find(pat, pos)
RECURSIVE FindStr(_, _, _)
FindStr(str, pat, pos) ==
    IF pos < 0 \/ pos + Len(pat) > Len(str) THEN Npos
    ELSE IF SubSeq(str, pos + 1, pos + Len(pat)) = pat THEN pos
    ELSE FindStr(str, pat, pos + 1)

\* std::string::rfind(pat, pos): the last match that starts at or before pos.
RECURSIVE RFindFrom(_, _, _)
RFindFrom(str, pat, p) ==
    IF p < 0 THEN Npos
    ELSE IF SubSeq(str, p + 1, p + Len(pat)) = pat THEN p
    ELSE RFindFrom(str, pat, p - 1)
RFindStr(str, pat, pos) ==
    RFindFrom(str, pat,
              IF pos < 0 \/ pos > Len(str) - Len(pat) THEN Len(str) - Len(pat) ELSE pos)

\* std::string::substr(pos, n) for a pos within the string
Substr(str, pos, n) ==
    SubSeq(str, pos + 1, IF n < 0 \/ pos + n > Len(str) THEN Len(str) ELSE pos + n)

\* operator<< of an unsigned number.
RECURSIVE Decimal(_)
Decimal(n) ==
    IF n < 10 THEN <<DigitText[n + 1]>>
    ELSE Decimal(n \div 10) \o <<DigitText[(n % 10) + 1]>>

\* operator<< of Simulator::Now().GetSeconds() for a time in milliseconds:
\* the seconds, and the fraction without its trailing zeros.
RECURSIVE StripZeros(_)
StripZeros(str) ==
    IF str # <<>> /\ str[Len(str)] = "0" THEN StripZeros(SubSeq(str, 1, Len(str) - 1))
    ELSE str
SecondsText(ms) ==
    LET frac == StripZeros(<<DigitText[((ms % 1000) \div 100) + 1],
                             DigitText[((ms % 100) \div 10) + 1],
                             DigitText[(ms % 10) + 1]>>)
    IN  Decimal(ms \div 1000) \o (IF frac = <<>> THEN <<>> ELSE <<".">> \o frac)

\* SimpleBlockchain() and Initialize(): both maps empty, the file for
\* BlockSim holds an empty list of transactions; the file of results is
\* BlockSim's and is read as "" while it does not exist.
NewBridge ==
    [m_pendingTransactions |-> EmptyFun,
     m_validatedTransactions |-> EmptyFun,
     m_transactionCounter |-> 0,
     m_lastResultCheck |-> 0,
     now |-> 0,
     ns3ToBlocksim |-> {},
     blocksimToNs3 |-> <<>>,
     hung |-> FALSE]

\* GenerateTransactionId: "ns3_tx_" << seconds << "_" << (++m_transactionCounter)
GenerateTransactionId(b) ==
    <<"n", "s", "3", "_", "t", "x", "_">> \o SecondsText(b.now) \o <<"_">>
        \o Decimal(b.m_transactionCounter + 1)

\* WriteTransactionsToFile: the ids of the transactions listed in the file.
WriteTransactionsToFile(b) ==
    IF DOMAIN b.m_pendingTransactions = {} THEN b
    ELSE [b EXCEPT !.ns3ToBlocksim = DOMAIN b.m_pendingTransactions]

\* m[key] = value of a std::map
MapPut(m, key, value) == [k \in (DOMAIN m) \cup {key} |-> IF k = key THEN value ELSE m[k]]
\* m.erase(key)
MapErase(m, key) == [k \in (DOMAIN m) \ {key} |-> m[k]]

\* SimpleBlockchain::SendTransaction: the bridge after the call and the id returned.
SendTransaction(b, senderId, recipientId, txId) ==
    LET transactionId == IF txId = <<>> THEN GenerateTransactionId(b) ELSE txId
        b1 == IF txId = <<>> THEN [b EXCEPT !.m_transactionCounter = @ + 1] ELSE b
        txData == [tx_id |-> transactionId, sender_id |-> senderId,
                   recipient_id |-> recipientId, timestamp |-> b.now]
    IN  [b |-> WriteTransactionsToFile(
                 [b1 EXCEPT !.m_pendingTransactions = MapPut(@, transactionId, txData)]),
         ret |-> transactionId]

\* SimpleBlockchain::IsTransactionValidated
IsTransactionValidated(b, txId) == txId \in DOMAIN b.m_validatedTransactions

\* SimpleBlockchain::GetTransactionResult
GetTransactionResult(b, txId) ==
    IF txId \in DOMAIN b.m_validatedTransactions
    THEN b.m_validatedTransactions[txId]
    ELSE <<>>

\* Mutant: a transaction id of the file is never taken as processed.
AlreadyProcessedNever(validated, txId) == FALSE

\* m_validatedTransactions.find(txId) != m_validatedTransactions.end()
AlreadyProcessed(validated, txId) == txId \in DOMAIN validated

\* ProcessBlockSimResults: the while loop from the search position pos on,
\* with the maps and the ids counted in newResults so far.  The loop does
\* not end when the search from the new position finds the match it has
\* just handled (hung).
RECURSIVE ParseResults(_, _, _, _, _)
ParseResults(content, pos, validated, pending, counted) ==
    LET found == FindStr(content, TxIdKey, pos)
        pos1 == found + 9
        start == FindStr(content, Quote, pos1) + 1
        end == FindStr(content, Quote, start)
        txId == Substr(content, start, end - start)
        validatedPos == FindStr(content, ValidatedKey, end)
        isValidated == /\ validatedPos # Npos
                       /\ Substr(content, validatedPos + 12, 4) = TrueText
        resultStart == RFindStr(content, <<"{">>, pos1)
        resultEnd == FindStr(content, <<"}">>, end) + 1
        stored == /\ end # Npos
                  /\ ~AlreadyProcessed(validated, txId)
                  /\ isValidated
                  /\ resultStart # Npos
        resultText == Substr(content, resultStart, resultEnd - resultStart)
    IN  IF found = Npos
        THEN [validated |-> validated, pending |-> pending,
              counted |-> counted, hung |-> FALSE]
        ELSE LET validated1 == IF stored THEN MapPut(validated, txId, resultText)
                               ELSE validated
                 pending1 == IF stored THEN MapErase(pending, txId) ELSE pending
                 counted1 == IF stored THEN Append(counted, txId) ELSE counted
             IN  IF end # Npos /\ FindStr(content, TxIdKey, end) = found
                 THEN [validated |-> validated1, pending |-> pending1,
                       counted |-> counted1, hung |-> TRUE]
                 ELSE ParseResults(content, end, validated1, pending1, counted1)

\* SimpleBlockchain::ProcessBlockSimResults: the bridge after the call, the
\* value returned and the ids counted in it.
ProcessBlockSimResults(b) ==
    LET content == b.blocksimToNs3
        r == ParseResults(content, 0, b.m_validatedTransactions,
                          b.m_pendingTransactions, <<>>)
    IN  IF b.now - b.m_lastResultCheck < 100
        THEN [b |-> b, ret |-> 0, counted |-> <<>>]
        ELSE IF content = <<>>
        THEN [b |-> [b EXCEPT !.m_lastResultCheck = b.now], ret |-> 0, counted |-> <<>>]
        ELSE [b |-> [b EXCEPT !.m_lastResultCheck = b.now,
                              !.m_validatedTransactions = r.validated,
                              !.m_pendingTransactions = r.pending,
                              !.hung = r.hung],
              ret |-> Len(r.counted),
              counted |-> r.counted]

\* ------------------------------------------ specification of the ledger
\* Node ids of the direct calls: the keys (0,0), (0,1), (1,1).
LedgerIds == {0, 1}
\* SNR arguments of the direct calls: none, 10.0 and 40.0.
SnrInputs == {0, 10 * SnrDen, 40 * SnrDen}

InitLedger ==
    /\ sim = NewWorld([n \in LedgerIds |-> <<0, 0>>], <<>>, {}, 150, 20, TRUE)
    /\ twin = sim
    /\ hist = EmptyFun
    /\ calls = 0
    /\ result = <<>>

CallUpdateMetric ==
    \E src \in LedgerIds, dst \in LedgerIds, snr \in SnrInputs,
       isDrop \in BOOLEAN, useBlockchain \in BOOLEAN :
        /\ calls < MaxCalls
        /\ Within(sim.m_ledger, hist, src, dst, snr, isDrop)
        /\ sim' = [sim EXCEPT
                     !.m_ledger = UpdateMetric(@, src, dst, snr, isDrop, useBlockchain),
                     !.g_trustPenalties = @ + PenaltyCount(isDrop, useBlockchain)]
        /\ hist' = Record(hist, src, dst, snr, isDrop, useBlockchain, TRUE)
        /\ calls' = calls + 1
        /\ UNCHANGED <<twin, result>>

NextLedger == CallUpdateMetric

SpecLedger == InitLedger /\ [][NextLedger]_vars

\* ------------------------------ specification of the evidence of one link
\* The calls the callbacks make for the link 0-1: a reception with an SNR of
\* 10.0 or 40.0, or a drop (snr 0.0), in either mode.  result is the
\* sequence of the SNR values of the receptions so far.
InitFeed ==
    /\ sim = NewWorld([n \in LedgerIds |-> <<0, 0>>], <<>>, {}, 150, 20, TRUE)
    /\ twin = sim
    /\ hist = EmptyFun
    /\ calls = 0
    /\ result = <<>>

FeedEvidence ==
    \E snr \in SnrInputs, useBlockchain \in BOOLEAN :
        LET isDrop == snr = 0
        IN  /\ Within(sim.m_ledger, hist, 0, 1, snr, isDrop)
            /\ sim' = [sim EXCEPT
                         !.m_ledger = UpdateMetric(@, 0, 1, snr, isDrop, useBlockchain),
                         !.g_trustPenalties = @ + PenaltyCount(isDrop, useBlockchain)]
            /\ hist' = Record(hist, 0, 1, snr, isDrop, useBlockchain, TRUE)
            /\ result' = IF snr > 0 THEN Append(result, snr) ELSE result
            /\ calls' = calls + 1
            /\ UNCHANGED twin

NextFeed == FeedEvidence

SpecFeed == InitFeed /\ [][NextFeed]_vars

\* ------------------------------------- specification of the simulation
\* Three nodes in a line, 50 m apart, with maxRadioRange 70 (the links 0-1
\* and 1-2) and the flow 0 -> 2; node 2 moves between its place in the line
\* and a place within range of node 0.
LinePos == (0 :> <<0, 0>> @@ 1 :> <<50, 0>> @@ 2 :> <<100, 0>>)
Waypoints == (0 :> {<<0, 0>>} @@ 1 :> {<<50, 0>>} @@ 2 :> {<<100, 0>>, <<60, 30>>})
LineFlows == <<<<0, 2>>>>
LineRange == 70
\* The simulated duration (simTime), in milliseconds.
SimTime == 200

\* The context strings of the trace sources: the nodes' own ("/NodeList/n/x"),
\* one of a node id beyond the container, one of the node id 4294967297
\* (2^32 + 1), and malformed ones.
NodeContext(d) == <<"NL", d, "/", "x">>
WideContext == <<"NL", "4", "2", "9", "4", "9", "6", "7", "2", "9", "7", "/", "x">>
Contexts ==
    {NodeContext("0"), NodeContext("1"), NodeContext("2"), NodeContext("3"),
     WideContext,
     <<"x", "/", "x">>, <<"NL", "1">>, <<"NL", "-", "1", "/">>,
     <<"NL", "/", "x">>, <<"NL", "x", "/">>}
\* Source addresses of dropped packets: the nodes' and one of no node (0).
SrcAddrs == 0 .. 3

Init ==
    /\ \E bh \in {{}, {1}}, ub \in BOOLEAN :
         sim = Started(NewWorld(LinePos, LineFlows, bh, LineRange, 20, ub), SimTime)
    /\ twin = sim
    /\ hist = EmptyFun
    /\ calls = 0
    /\ result = <<>>

\* The step of the primary run for a handler's outcome w and the
\* UpdateMetric calls ups it made; the bounds on the counters hold.
RECURSIVE RecordAll(_, _, _)
RecordAll(h, ups, ub) ==
    IF ups = <<>> THEN h
    ELSE RecordAll(Record(h, Head(ups).src, Head(ups).dst, Head(ups).snr,
                          Head(ups).isDrop, ub, FALSE),
                   Tail(ups), ub)
WithinAll(w, h, ups) ==
    \A i \in DOMAIN ups :
        Within(w.m_ledger, h, ups[i].src, ups[i].dst, ups[i].snr, ups[i].isDrop)
\* The UpdateMetric calls a callback makes for a context, ups[r] being its
\* calls for the receiver r: none unless the context names a node.
CallsFor(w, context, ups) ==
    LET p == ParseNodeIdFromContext(context)
    IN  IF p.threw \/ InvalidNode(w, p.id) THEN <<>> ELSE ups[p.id]
Running == ~sim.aborted /\ ~sim.stopped /\ calls < MaxSteps

PhyRxEnd ==
    \E context \in Contexts :
        LET ups == CallsFor(sim, context, [r \in DOMAIN sim.pos |-> RxEndUpdates(sim, r)])
        IN  /\ Running
            /\ WithinAll(sim, hist, ups)
            /\ sim' = PhyRxEndCallback(sim, context)
            /\ hist' = RecordAll(hist, ups, sim.useBlockchain)
            /\ calls' = calls + 1
            /\ UNCHANGED <<twin, result>>

Ipv4L3Drop ==
    \E context \in Contexts, srcAddr \in SrcAddrs :
        LET ups == CallsFor(sim, context, [r \in DOMAIN sim.pos |-> L3DropUpdates(sim, r, srcAddr)])
        IN  /\ Running
            /\ WithinAll(sim, hist, ups)
            /\ sim' = Ipv4L3DropCallback(sim, context, srcAddr)
            /\ hist' = RecordAll(hist, ups, sim.useBlockchain)
            /\ calls' = calls + 1
            /\ UNCHANGED <<twin, result>>

PhyRxDrop ==
    \E context \in Contexts :
        LET ups == CallsFor(sim, context, [r \in DOMAIN sim.pos |-> RxDropUpdates(sim, r)])
        IN  /\ Running
            /\ WithinAll(sim, hist, ups)
            /\ sim' = PhyRxDropCallback(sim, context)
            /\ hist' = RecordAll(hist, ups, sim.useBlockchain)
            /\ calls' = calls + 1
            /\ UNCHANGED <<twin, result>>

\* Simulator::Run invokes the heartbeat that is the next event.
Heartbeat ==
    /\ Running
    /\ HasNext(sim, "heartbeat")
    /\ sim' = SimulationHeartbeat(Dequeue(sim))
    /\ calls' = calls + 1
    /\ UNCHANGED <<twin, hist, result>>

\* Simulator::Run invokes the stop event once it is the next event.
Stop ==
    /\ HasNext(sim, "stop")
    /\ sim' = SimulatorStop(Dequeue(sim))
    /\ UNCHANGED <<twin, hist, calls, result>>

\* The mobility model moves a node to another of its waypoints.
Move ==
    \E n \in DOMAIN sim.pos : \E p \in Waypoints[n] :
        /\ Running
        /\ p # sim.pos[n]
        /\ sim' = [sim EXCEPT !.pos[n] = p]
        /\ calls' = calls + 1
        /\ UNCHANGED <<twin, hist, result>>

Next == PhyRxEnd \/ Ipv4L3Drop \/ PhyRxDrop \/ Heartbeat \/ Move \/ Stop

Spec == Init /\ [][Next]_vars

\* ------------------------------------ specification of the path solver
\* Four nodes, maxRadioRange 70: a chain (links 0-1, 1-2, 2-3), a diamond
\* (0-1, 0-2, 1-2, 1-3, 2-3), a rectangle with every pair in range, two
\* pairs out of each other's range (0-1, 2-3), and a rim: nodes 1 and 2
\* exactly 70 m from node 0 and in range of each other, node 3 far away.
ChainPos == (0 :> <<0, 0>> @@ 1 :> <<50, 0>> @@ 2 :> <<50, 50>> @@ 3 :> <<100, 50>>)
DiamondPos == (0 :> <<0, 30>> @@ 1 :> <<50, 60>> @@ 2 :> <<50, 0>> @@ 3 :> <<100, 30>>)
MeshPos == (0 :> <<0, 0>> @@ 1 :> <<30, 0>> @@ 2 :> <<30, 40>> @@ 3 :> <<0, 40>>)
SplitPos == (0 :> <<0, 0>> @@ 1 :> <<50, 0>> @@ 2 :> <<300, 300>> @@ 3 :> <<350, 300>>)
RimPos == (0 :> <<0, 0>> @@ 1 :> <<70, 0>> @@ 2 :> <<42, 56>> @@ 3 :> <<200, 200>>)
PathLayouts == {ChainPos, DiamondPos, MeshPos, SplitPos, RimPos}

\* The evidence a link has gathered: none, one L3 drop, or two L3 drops and
\* a reception.
Profiles == {"fresh", "dropped", "floored"}
ProfileUpdates(w, e, p) ==
    CASE p = "fresh" -> <<>>
      [] p = "dropped" -> LinkUpdates(w, e[1], e[2], TRUE)
      [] p = "floored" -> LinkUpdates(w, e[1], e[2], TRUE)
                          \o LinkUpdates(w, e[1], e[2], TRUE)
                          \o LinkUpdates(w, e[1], e[2], FALSE)
LinksOf(pos, maxRange) ==
    {e \in (DOMAIN pos) \X (DOMAIN pos) :
        e[1] < e[2] /\ InRange(pos[e[1]], pos[e[2]], maxRange)}
\* The world after the evidence prof[e] of every link e.
RECURSIVE Evidence(_, _)
Evidence(w, prof) ==
    IF DOMAIN prof = {} THEN w
    ELSE LET e == CHOOSE x \in DOMAIN prof : TRUE
         IN  Evidence(ApplyUpdates(w, ProfileUpdates(w, e, prof[e])),
                      [x \in (DOMAIN prof) \ {e} |-> prof[x]])

\* BuildGraph in the given mode, then CalculatePath(s, d).
Query(w, useBlockchain, s, d) ==
    LET g == BuildGraph(w.pos, w.m_ledger, w.maxRadioRange, w.blackholeNodes,
                        w.defaultSnr, useBlockchain)
    IN  [m_graph |-> g.m_graph, m_weights |-> g.m_weights,
         picks |-> Picks(g.m_graph, g.m_weights, s, d),
         path |-> CalculatePath(g.m_graph, g.m_weights, s, d)]

InitPath ==
    /\ \E pos \in PathLayouts, bh \in {{}, {1, 2}} :
         \E prof \in [LinksOf(pos, LineRange) -> Profiles] :
            sim = Evidence(NewWorld(pos, <<>>, bh, LineRange, 20, TRUE), prof)
    /\ twin = sim
    /\ hist = EmptyFun
    /\ calls = 0
    /\ result = <<>>

CallCalculatePath ==
    \E s \in DOMAIN sim.pos, d \in DOMAIN sim.pos :
        /\ result = <<>>
        /\ result' = [source |-> s, dest |-> d,
                      baseline |-> Query(sim, FALSE, s, d),
                      proposed |-> Query(sim, TRUE, s, d)]
        /\ UNCHANGED <<sim, twin, hist, calls>>

NextPath == CallCalculatePath

SpecPath == InitPath /\ [][NextPath]_vars

\* ------------------------------------------ specification of two runs
\* Two runs of the line with the flow 0 -> 2 that differ in the blackhole
\* set only (node 1 or none) and are fed the same events.
Events ==
    [kind : {"PhyRxEnd", "PhyRxDrop"}, context : Contexts, srcAddr : {0}]
    \cup [kind : {"Ipv4L3Drop"}, context : Contexts, srcAddr : SrcAddrs]

\* The world after the callback of an event.
Deliver(w, ev) ==
    CASE ev.kind = "PhyRxEnd" -> PhyRxEndCallback(w, ev.context)
      [] ev.kind = "PhyRxDrop" -> PhyRxDropCallback(w, ev.context)
      [] ev.kind = "Ipv4L3Drop" -> Ipv4L3DropCallback(w, ev.context, ev.srcAddr)
UpdatesOf(w, ev) ==
    CASE ev.kind = "PhyRxEnd" ->
           CallsFor(w, ev.context, [r \in DOMAIN w.pos |-> RxEndUpdates(w, r)])
      [] ev.kind = "PhyRxDrop" ->
           CallsFor(w, ev.context, [r \in DOMAIN w.pos |-> RxDropUpdates(w, r)])
      [] ev.kind = "Ipv4L3Drop" ->
           CallsFor(w, ev.context, [r \in DOMAIN w.pos |-> L3DropUpdates(w, r, ev.srcAddr)])

InitTwin ==
    /\ \E ub \in BOOLEAN :
         /\ sim = Started(NewWorld(LinePos, LineFlows, {1}, LineRange, 20, ub),
                          SimTime)
         /\ twin = Started(NewWorld(LinePos, LineFlows, {}, LineRange, 20, ub),
                           SimTime)
    /\ hist = EmptyFun
    /\ calls = 0
    /\ result = <<>>

TwinEvent ==
    \E ev \in Events :
        /\ Running
        /\ WithinAll(sim, hist, UpdatesOf(sim, ev))
        /\ sim' = Deliver(sim, ev)
        /\ twin' = Deliver(twin, ev)
        /\ hist' = RecordAll(hist, UpdatesOf(sim, ev), sim.useBlockchain)
        /\ calls' = calls + 1
        /\ UNCHANGED result

TwinHeartbeat ==
    /\ Running
    /\ HasNext(sim, "heartbeat")
    /\ sim' = SimulationHeartbeat(Dequeue(sim))
    /\ twin' = SimulationHeartbeat(Dequeue(twin))
    /\ calls' = calls + 1
    /\ UNCHANGED <<hist, result>>

TwinStop ==
    /\ HasNext(sim, "stop")
    /\ sim' = SimulatorStop(Dequeue(sim))
    /\ twin' = SimulatorStop(Dequeue(twin))
    /\ UNCHANGED <<hist, calls, result>>

TwinMove ==
    \E n \in DOMAIN sim.pos : \E p \in Waypoints[n] :
        /\ Running
        /\ p # sim.pos[n]
        /\ sim' = [sim EXCEPT !.pos[n] = p]
        /\ twin' = [twin EXCEPT !.pos[n] = p]
        /\ calls' = calls + 1
        /\ UNCHANGED <<hist, result>>

NextTwin == TwinEvent \/ TwinHeartbeat \/ TwinMove \/ TwinStop

SpecTwin == InitTwin /\ [][NextTwin]_vars

\* --------------------------- specification of runs with persistent droppers
\* Five nodes: 0 - 1, then 1 - 2 - 4 and 1 - 3 - 4 (and 2 - 3); node 0 is in
\* range of node 1 only.
ForkPos ==
    (0 :> <<0, 30>> @@ 1 :> <<50, 30>> @@ 2 :> <<100, 60>> @@ 3 :> <<100, 0>>
     @@ 4 :> <<150, 30>>)
\* The layouts with the flow from node 0 to the last node; in the rim neither
\* end of the flow has a node in range.
DetourLayouts == {ChainPos, DiamondPos, ForkPos, RimPos}
FlowAcross(pos) == <<<<0, Cardinality(DOMAIN pos) - 1>>>>
IdText(n) == <<"0", "1", "2", "3", "4">>[n + 1]

\* The blackholes on the path computed for flow f, and the first of them:
\* the nodes before it hold the routes that lead the flow's packets to it.
BlackholesOn(w, f) ==
    {i \in DOMAIN w.lastPaths[f] : w.lastPaths[f][i] \in w.blackholeNodes}
CrossesBlackhole(w, f) == BlackholesOn(w, f) # {}
FirstBlackhole(w, f) ==
    w.lastPaths[f][CHOOSE i \in BlackholesOn(w, f) :
                      \A j \in BlackholesOn(w, f) : i <= j]

InitDetour ==
    /\ \E pos \in DetourLayouts, ub \in BOOLEAN :
         \E bh \in (SUBSET (1 .. (Cardinality(DOMAIN pos) - 2))) \ {{}} :
            sim = Started(NewWorld(pos, FlowAcross(pos), bh, LineRange, 20, ub),
                          HeartbeatPeriod * MaxTicks)
    /\ twin = sim
    /\ hist = EmptyFun
    /\ calls = 0
    /\ result = <<>>

\* The first blackhole on a flow's path has no route and drops a packet of
\* the flow: the L3 drop is reported with the address of the flow's source.
\* calls counts the drops reported since the last heartbeat.
BlackholeDrop ==
    \E f \in DOMAIN sim.activeFlows :
        /\ ~sim.stopped
        /\ CrossesBlackhole(sim, f)
        /\ calls < MaxCalls
        /\ WithinAll(sim, hist,
                     L3DropUpdates(sim, FirstBlackhole(sim, f),
                                   GetAddress(sim.activeFlows[f][1])))
        /\ sim' = Ipv4L3DropCallback(sim, NodeContext(IdText(FirstBlackhole(sim, f))),
                                     GetAddress(sim.activeFlows[f][1]))
        /\ calls' = calls + 1
        /\ UNCHANGED <<twin, hist, result>>

\* The next heartbeat; a blackhole on a path has dropped since the last one.
DetourHeartbeat ==
    /\ HasNext(sim, "heartbeat")
    /\ (\E f \in DOMAIN sim.activeFlows : CrossesBlackhole(sim, f)) => calls > 0
    /\ sim' = SimulationHeartbeat(Dequeue(sim))
    /\ calls' = 0
    /\ UNCHANGED <<twin, hist, result>>

DetourStop ==
    /\ HasNext(sim, "stop")
    /\ sim' = SimulatorStop(Dequeue(sim))
    /\ UNCHANGED <<twin, hist, calls, result>>

NextDetour == BlackholeDrop \/ DetourHeartbeat \/ DetourStop

SpecDetour == InitDetour /\ [][NextDetour]_vars

\* ------------------------- specification of runs with the defaultSnr option
\* The line with the flow 0 -> 2 and no blackhole, run with defaultSnr 20.0
\* or 3.0 in either mode; the events are the receptions at the nodes and the
\* L3 drops, at the nodes, of packets sent by node 0; node 2 moves between
\* its place in the line and a place 160 m from node 0, out of the range of
\* node 1.  A run has one step more than a run of the simulation above.
DefaultSnrs == {3, 20}
OptionWaypoints ==
    (0 :> {<<0, 0>>} @@ 1 :> {<<50, 0>>} @@ 2 :> {<<100, 0>>, <<160, 0>>})
NodeEvents ==
    {ev \in Events :
       /\ \E n \in DOMAIN LinePos : ev.context = NodeContext(IdText(n))
       /\ \/ ev.kind = "PhyRxEnd"
          \/ ev.kind = "Ipv4L3Drop" /\ ev.srcAddr = GetAddress(0)}
OptionsRunning == ~sim.aborted /\ ~sim.stopped /\ calls < MaxSteps + 1

InitOptions ==
    /\ \E dsnr \in DefaultSnrs, ub \in BOOLEAN :
         sim = Started(NewWorld(LinePos, LineFlows, {}, LineRange, dsnr, ub), SimTime)
    /\ twin = sim
    /\ hist = EmptyFun
    /\ calls = 0
    /\ result = <<>>

OptionsEvent ==
    \E ev \in NodeEvents :
        /\ OptionsRunning
        /\ WithinAll(sim, hist, UpdatesOf(sim, ev))
        /\ sim' = Deliver(sim, ev)
        /\ hist' = RecordAll(hist, UpdatesOf(sim, ev), sim.useBlockchain)
        /\ calls' = calls + 1
        /\ UNCHANGED <<twin, result>>

OptionsHeartbeat ==
    /\ OptionsRunning
    /\ HasNext(sim, "heartbeat")
    /\ sim' = SimulationHeartbeat(Dequeue(sim))
    /\ calls' = calls + 1
    /\ UNCHANGED <<twin, hist, result>>

OptionsStop ==
    /\ HasNext(sim, "stop")
    /\ sim' = SimulatorStop(Dequeue(sim))
    /\ UNCHANGED <<twin, hist, calls, result>>

OptionsMove ==
    \E n \in DOMAIN sim.pos : \E p \in OptionWaypoints[n] :
        /\ OptionsRunning
        /\ p # sim.pos[n]
        /\ sim' = [sim EXCEPT !.pos[n] = p]
        /\ calls' = calls + 1
        /\ UNCHANGED <<twin, hist, result>>

NextOptions == OptionsEvent \/ OptionsHeartbeat \/ OptionsMove \/ OptionsStop

SpecOptions == InitOptions /\ [][NextOptions]_vars

\* ------------------------------ specification of the selection at startup
\* sim is the state of main's selection of the malicious nodes and of the
\* flows, for every numNodes, numFlows and numBlackholes within the bounds
\* and every value of the random variable.
InitSetup ==
    /\ \E numNodes \in 1 .. MaxNodes, numFlows \in 0 .. MaxPicks,
          numBlackholes \in 0 .. MaxPicks :
         sim = NewSetup(numNodes, numFlows, numBlackholes)
    /\ twin = sim
    /\ hist = EmptyFun
    /\ calls = 0
    /\ result = <<>>

SelectBlackhole ==
    \E idx \in RngIndex(Cardinality(sim.candidateNodes)) :
        /\ sim.pc = "blackholes"
        /\ MoreBlackholes(sim)
        /\ sim' = AfterBlackhole(sim, idx)
        /\ UNCHANGED <<twin, hist, calls, result>>

CollectAvailable ==
    /\ sim.pc = "blackholes"
    /\ ~MoreBlackholes(sim)
    /\ sim' = WithAvailableNodes(sim)
    /\ UNCHANGED <<twin, hist, calls, result>>

SelectFlow ==
    \E sourceIdx \in RngIndex(Cardinality(sim.availableNodes)),
       destIdx \in RngIndex(Cardinality(sim.availableNodes) - 1) :
        /\ sim.pc = "flows"
        /\ MoreFlows(sim)
        /\ sim' = AfterFlow(sim, sourceIdx, destIdx)
        /\ UNCHANGED <<twin, hist, calls, result>>

EndSelection ==
    /\ sim.pc = "flows"
    /\ ~MoreFlows(sim)
    /\ sim' = [sim EXCEPT !.pc = "done"]
    /\ UNCHANGED <<twin, hist, calls, result>>

NextSetup == SelectBlackhole \/ CollectAvailable \/ SelectFlow \/ EndSelection

SpecSetup == InitSetup /\ [][NextSetup]_vars

\* --------------------------------------- specification of the file bridge
\* sim is the bridge.  Transactions are sent with the explicit ids A and B
\* or with a generated id; BlockSim replaces the file of results by one of
\* a few files; the time advances by the 0.1 s that ProcessBlockSimResults
\* lets pass between two readings.  hist is the sequence of the ids counted
\* as new by the calls so far, result is the value returned by the last call.
IdA == <<"A">>
IdB == <<"B">>
\* The id generated by the first SendTransaction without an id, at time 0.
IdG == <<"n", "s", "3", "_", "t", "x", "_", "0", "_", "1">>
ExplicitIds == {<<>>, IdA, IdB}

\* An entry of the file of results, {"tx_id": "id", "validated":flag}, and a
\* file of entries.
Entry(id, flag) ==
    <<"{">> \o TxIdKey \o <<" ">> \o Quote \o id \o Quote \o <<",", " ">>
        \o ValidatedKey \o flag \o <<"}">>
FileOf(entries) == <<"{", "\"", "r", "\"", ":", "[">> \o entries \o <<"]", "}">>
\* The files of results: A validated; A validated and B not; A validated
\* twice; the generated id and B validated; A validated with a blank before
\* true; a file cut off after a "tx_id": key.
ResultFiles ==
    {FileOf(Entry(IdA, TrueText)),
     FileOf(Entry(IdA, TrueText) \o <<",">> \o Entry(IdB, FalseText)),
     FileOf(Entry(IdA, TrueText) \o <<",">> \o Entry(IdA, TrueText)),
     FileOf(Entry(IdG, TrueText) \o <<",">> \o Entry(IdB, TrueText)),
     FileOf(Entry(IdA, <<" ">> \o TrueText)),
     <<"{", "\"", "r", "\"", ":", "[", "{">> \o TxIdKey}

BridgeRunning == ~sim.hung /\ calls < MaxOps

InitBridge ==
    /\ sim = NewBridge
    /\ twin = sim
    /\ hist = <<>>
    /\ calls = 0
    /\ result = <<>>

CallSendTransaction ==
    \E txId \in ExplicitIds :
        /\ BridgeRunning
        /\ sim' = SendTransaction(sim, 0, 1, txId).b
        /\ result' = SendTransaction(sim, 0, 1, txId).ret
        /\ calls' = calls + 1
        /\ UNCHANGED <<twin, hist>>

CallProcessBlockSimResults ==
    /\ BridgeRunning
    /\ sim' = ProcessBlockSimResults(sim).b
    /\ result' = ProcessBlockSimResults(sim).ret
    /\ hist' = hist \o ProcessBlockSimResults(sim).counted
    /\ calls' = calls + 1
    /\ UNCHANGED twin

BlockSimWrites ==
    \E file \in ResultFiles :
        /\ BridgeRunning
        /\ file # sim.blocksimToNs3
        /\ sim' = [sim EXCEPT !.blocksimToNs3 = file]
        /\ calls' = calls + 1
        /\ UNCHANGED <<twin, hist, result>>

TimePasses ==
    /\ BridgeRunning
    /\ sim' = [sim EXCEPT !.now = @ + 100]
    /\ calls' = calls + 1
    /\ UNCHANGED <<twin, hist, result>>

NextBridge ==
    CallSendTransaction \/ CallProcessBlockSimResults \/ BlockSimWrites \/ TimePasses

SpecBridge == InitBridge /\ [][NextBridge]_vars

\* ------------------------------------------------- claims on the ledger
SetMax(S) == CHOOSE x \in S : \A y \in S : y <= x
SetMin(S) == CHOOSE x \in S : \A y \in S : x <= y

\* C1: after any sequence of UpdateMetric calls (any mix of snr values,
\* is_drop and trust_enabled flags, on any pairs) every ledger record has
\* 0.3 <= trust <= 1.0.
C1_TrustBounds ==
    \A k \in DOMAIN sim.m_ledger :
        /\ TrustFloor <= sim.m_ledger[k].trust
        /\ sim.m_ledger[k].trust <= TrustOne
\* A link penalized down to the floor beside a link that took a baseline
\* drop and kept trust 1.0.
C1_Witness ==
    \E k1, k2 \in DOMAIN sim.m_ledger :
        /\ HistOf(hist, k1).penalties >= 2
        /\ sim.m_ledger[k1].trust = TrustFloor
        /\ sim.m_ledger[k2].drops > 0
        /\ sim.m_ledger[k2].trust = TrustOne

\* max(0.3, 0.5^k) in trust units.
TrustAfter(k) == Max(TrustFloor, TrustOne \div (2 ^ k))

\* C3: a link that has taken k trust-enabled drops since it was fresh has
\* trust max(0.3, 0.5^k): 1.0, 0.5, 0.3, 0.3, ...; after three or more drops
\* trust is the floor 0.3 exactly.
C3_FloorConvergence ==
    \A k \in DOMAIN sim.m_ledger :
        /\ sim.m_ledger[k].trust = TrustAfter(HistOf(hist, k).penalties)
        /\ HistOf(hist, k).penalties >= 3 => sim.m_ledger[k].trust = TrustFloor
\* Three consecutive trust-enabled drops and nothing else on one link.
C3_Witness ==
    \E k \in DOMAIN sim.m_ledger :
        /\ HistOf(hist, k).penalties = 3
        /\ sim.m_ledger[k].drops = 3
        /\ HistOf(hist, k).nobs = 0
        /\ sim.m_ledger[k].trust = TrustFloor

\* C5 as claimed: avg_snr lies between the minimum and the maximum of the
\* positive SNR values observed on the link so far.
C5_EmaWithinObservedHull ==
    \A k \in DOMAIN sim.m_ledger :
        HistOf(hist, k).seen # {} =>
            /\ SetMin(HistOf(hist, k).seen) <= sim.m_ledger[k].movingAvgSnr
            /\ sim.m_ledger[k].movingAvgSnr <= SetMax(HistOf(hist, k).seen)

\* C5 as amended: avg_snr lies between the initial value 0 and the maximum
\* of the positive SNR values observed on the link so far; it is 0 while
\* none was observed and strictly positive afterwards.
C5_EmaWithinHullWithZero ==
    \A k \in DOMAIN sim.m_ledger :
        IF HistOf(hist, k).seen = {}
        THEN sim.m_ledger[k].movingAvgSnr = 0
        ELSE /\ 0 < sim.m_ledger[k].movingAvgSnr
             /\ sim.m_ledger[k].movingAvgSnr <= SetMax(HistOf(hist, k).seen)
\* A link that observed 40.0 and then 10.0: its average 11.4 lies inside
\* (0, 40.0], and it was 12.0, below every value observed, after the first.
C5_Witness ==
    \E k \in DOMAIN sim.m_ledger :
        /\ HistOf(hist, k).seen = {10 * SnrDen, 40 * SnrDen}
        /\ HistOf(hist, k).nobs = 2
        /\ sim.m_ledger[k].movingAvgSnr = (114 * SnrDen) \div 10

\* C6: GetTrust(a,b) = GetTrust(b,a) and GetSnr(a,b) = GetSnr(b,a) for all
\* ids and every reachable ledger; UpdateMetric(a,b,...) and
\* UpdateMetric(b,a,...) with the same arguments give the same ledger, which
\* differs from the old one in the single record of the pair.
C6_SymmetricKey ==
    \A a \in LedgerIds, b \in LedgerIds :
        /\ GetTrust(sim.m_ledger, a, b) = GetTrust(sim.m_ledger, b, a)
        /\ GetSnr(sim.m_ledger, a, b) = GetSnr(sim.m_ledger, b, a)
        /\ a <= b =>
             \A snr \in SnrInputs, isDrop \in BOOLEAN, ub \in BOOLEAN :
               \A l1 \in {UpdateMetric(sim.m_ledger, a, b, snr, isDrop, ub)} :
                   /\ l1 = UpdateMetric(sim.m_ledger, b, a, snr, isDrop, ub)
                   /\ DOMAIN l1 = (DOMAIN sim.m_ledger) \cup {<<a, b>>}
                   /\ \A k \in (DOMAIN sim.m_ledger) \ {<<a, b>>} :
                        l1[k] = sim.m_ledger[k]
\* One record, updated in both directions, holding a penalty and an SNR.
C6_Witness ==
    \E k \in DOMAIN sim.m_ledger :
        /\ HistOf(hist, k).callers = {<<0, 1>>, <<1, 0>>}
        /\ sim.m_ledger[k].trust < TrustOne
        /\ sim.m_ledger[k].movingAvgSnr > 0
        /\ GetTrust(sim.m_ledger, 1, 0) = sim.m_ledger[k].trust
        /\ GetSnr(sim.m_ledger, 0, 1) = sim.m_ledger[k].movingAvgSnr

\* The six calls a link can get: a reception with 10.0 or 40.0 or a drop,
\* with or without trust enabled.
LinkCalls == [snr : SnrInputs, useBlockchain : BOOLEAN]
\* The ledger after the call c for the link 0-1.
AfterCall(l, c) == UpdateMetric(l, 0, 1, c.snr, c.snr = 0, c.useBlockchain)
\* The trust and the drops of every record.
TrustAndDrops(l) == [k \in DOMAIN l |-> <<l[k].trust, l[k].drops>>]

\* C26: from every reachable ledger, two calls for one link (drops and
\* receptions in any mix) leave the same trust and the same drops in either
\* order; as every reordering is a chain of such swaps, the trust and the
\* drops after a multiset of updates do not depend on the order.
C26_OrderInsensitive ==
    \A c1 \in LinkCalls, c2 \in LinkCalls :
        TrustAndDrops(AfterCall(AfterCall(sim.m_ledger, c1), c2))
          = TrustAndDrops(AfterCall(AfterCall(sim.m_ledger, c2), c1))

\* A link with a penalty and a reception behind it: a drop between two
\* receptions of 10.0 and 40.0 gives another ledger (another average) than
\* the drop between 40.0 and 10.0, with the same trust and drops.
C26_Witness ==
    /\ <<0, 1>> \in DOMAIN sim.m_ledger
    /\ sim.m_ledger[<<0, 1>>].trust = TrustOne \div 2
    /\ sim.m_ledger[<<0, 1>>].drops = 1
    /\ sim.m_ledger[<<0, 1>>].movingAvgSnr > 0
    /\ \A lo \in {[snr |-> 10 * SnrDen, useBlockchain |-> TRUE]} :
       \A hi \in {[snr |-> 40 * SnrDen, useBlockchain |-> TRUE]} :
       \A dr \in {[snr |-> 0, useBlockchain |-> TRUE]} :
         \A l1 \in {AfterCall(AfterCall(AfterCall(sim.m_ledger, lo), dr), hi)} :
         \A l2 \in {AfterCall(AfterCall(AfterCall(sim.m_ledger, hi), dr), lo)} :
            /\ l1 # l2
            /\ TrustAndDrops(l1) = TrustAndDrops(l2)
            /\ l1[<<0, 1>>].trust = TrustFloor

\* The average of the link 0-1, and the values 3.0, 5.1, 6.57 and 16.599.
AvgSnr(w) == Materialized(w.m_ledger, <<0, 1>>).movingAvgSnr
ScenarioFeed == <<10 * SnrDen, 10 * SnrDen, 10 * SnrDen, 40 * SnrDen>>
ScenarioAvg ==
    <<3000 * (SnrDen \div 1000), 5100 * (SnrDen \div 1000),
      6570 * (SnrDen \div 1000), 16599 * (SnrDen \div 1000)>>

\* C27: a link whose receptions so far are the first n of 10, 10, 10, 40 has
\* the average 3.0, 5.1, 6.57, 16.599 for n = 1 .. 4, whatever drops came in
\* between; every reception with the value snr turns the average avg into
\* 0.3 * snr + 0.7 * avg, from 0 for a fresh link, and an update with snr 0
\* leaves the average as it was.
C27_EmaScenario ==
    /\ [](\A n \in 1 .. 4 :
             result = SubSeq(ScenarioFeed, 1, n) => AvgSnr(sim) = ScenarioAvg[n])
    /\ [](result = <<>> => AvgSnr(sim) = 0)
    /\ [][IF Len(result') > Len(result)
          THEN 10 * AvgSnr(sim')
                 = 3 * result'[Len(result')] + 7 * AvgSnr(sim)
          ELSE AvgSnr(sim') = AvgSnr(sim)]_vars

\* The four receptions of the scenario and a drop: the average is 16.599.
C27_Witness ==
    /\ result = ScenarioFeed
    /\ AvgSnr(sim) = ScenarioAvg[4]
    /\ sim.m_ledger[<<0, 1>>].drops = 1

\* The keys of the records incident to node n.
Incident(l, n) == {k \in DOMAIN l : n \in {k[1], k[2]}}

C2_TrustNeverRises ==
    [][/\ \A k \in DOMAIN sim.m_ledger :
            /\ k \in DOMAIN sim'.m_ledger
            /\ sim'.m_ledger[k].trust <= sim.m_ledger[k].trust
       /\ \A k \in DOMAIN sim'.m_ledger : sim'.m_ledger[k].trust <= TrustOne]_vars

\* A penalized link that has since had a successful reception and has been
\* through a heartbeat.
C2_Witness ==
    /\ sim.useBlockchain
    /\ sim.ticks > 0
    /\ \E k \in DOMAIN sim.m_ledger :
         /\ sim.m_ledger[k].trust < TrustOne
         /\ sim.m_ledger[k].movingAvgSnr > 0

\* C4: in a Baseline run every record has trust 1.0 and trust_penalties is
\* 0 in every reachable state; a step that counts a drop leaves the trust and
\* the moving average of every record and trust_penalties as they were and
\* raises a record's drops by one at most.
C4_BaselineTrustImmutable ==
    /\ [](~sim.useBlockchain =>
            /\ \A k \in DOMAIN sim.m_ledger : sim.m_ledger[k].trust = TrustOne
            /\ sim.g_trustPenalties = 0)
    /\ [][(/\ ~sim.useBlockchain
           /\ \/ sim'.g_l3Drops > sim.g_l3Drops
              \/ sim'.g_phyDrops > sim.g_phyDrops)
          => /\ sim'.g_trustPenalties = sim.g_trustPenalties
             /\ \A k \in DOMAIN sim'.m_ledger :
                  /\ sim'.m_ledger[k].trust = Materialized(sim.m_ledger, k).trust
                  /\ sim'.m_ledger[k].movingAvgSnr
                       = Materialized(sim.m_ledger, k).movingAvgSnr
                  /\ sim'.m_ledger[k].drops - Materialized(sim.m_ledger, k).drops
                       \in {0, 1}]_vars

\* A Baseline run with an L3 drop and a PHY drop on one link.
C4_Witness ==
    /\ ~sim.useBlockchain
    /\ sim.g_l3Drops > 0
    /\ sim.g_phyDrops > 0
    /\ sim.g_trustPenalties = 0
    /\ \E k \in DOMAIN sim.m_ledger :
         sim.m_ledger[k].drops >= 2 /\ sim.m_ledger[k].trust = TrustOne

\* The number of non-final places of the computed paths held by a blackhole.
SkipCount(w) ==
    Cardinality({x \in (DOMAIN w.lastPaths) \X (0 .. 8) :
                   /\ x[2] >= 1
                   /\ x[2] < Len(w.lastPaths[x[1]])
                   /\ w.lastPaths[x[1]][x[2]] \in w.blackholeNodes})

\* C10: the routing table of a node of the blackhole set holds no route in
\* any reachable state, and a heartbeat raises route_skips and
\* malicious_drops each by the number of non-final places that blackholes
\* hold on the paths it computed.
C10_NoRouteOnBlackhole ==
    /\ [](\A n \in sim.blackholeNodes : sim.routes[n] = <<>>)
    /\ [][sim'.ticks = sim.ticks + 1 =>
            /\ sim'.g_routeSkips = sim.g_routeSkips + SkipCount(sim')
            /\ sim'.g_maliciousDrops = sim.g_maliciousDrops + SkipCount(sim')]_vars

\* Two heartbeats have computed the path through blackhole 1: its source has
\* the route, the blackhole has none.
C10_Witness ==
    /\ 1 \in sim.blackholeNodes
    /\ sim.lastPaths[1] = <<0, 1, 2>>
    /\ sim.g_routeSkips = 2
    /\ sim.g_maliciousDrops = 2
    /\ sim.routes[0] = <<[dest |-> GetAddress(2), gateway |-> GetAddress(1)]>>
    /\ sim.routes[1] = <<>>

\* The host routes to destIp in a routing table.
RoutesTo(table, destIp) == SelectSeq(table, LAMBDA r : r.dest = destIp)

\* C11: in every reachable state a node holds at most one host route per
\* destination address, and right after a heartbeat every non-final node of
\* a flow's computed path that is no blackhole holds, for the flow's
\* destination, the route whose gateway is the next node of the path.
C11_RouteReplaced ==
    /\ [](\A n \in DOMAIN sim.routes : \A a \in 1 .. Cardinality(DOMAIN sim.pos) :
             Len(RoutesTo(sim.routes[n], a)) <= 1)
    /\ [][sim'.ticks = sim.ticks + 1 =>
            \A f \in DOMAIN sim'.activeFlows :
              \A i \in 1 .. (Len(sim'.lastPaths[f]) - 1) :
                sim'.lastPaths[f][i] \notin sim'.blackholeNodes =>
                  RoutesTo(sim'.routes[sim'.lastPaths[f][i]],
                           GetAddress(sim'.activeFlows[f][2]))
                  = <<[dest |-> GetAddress(sim'.activeFlows[f][2]),
                       gateway |-> GetAddress(sim'.lastPaths[f][i + 1])]>>]_vars

\* The second heartbeat found the direct path after node 2 moved within
\* range of node 0: the source's route via node 1 has been replaced, node 1
\* keeps the route of the first heartbeat.
C11_Witness ==
    /\ sim.ticks = 2
    /\ sim.lastPaths[1] = <<0, 2>>
    /\ sim.routes[0] = <<[dest |-> GetAddress(2), gateway |-> GetAddress(2)]>>
    /\ sim.routes[1] = <<[dest |-> GetAddress(2), gateway |-> GetAddress(2)]>>

\* The heartbeat events in the queue.
HeartbeatsPending(w) == {e \in w.events : e.kind = "heartbeat"}

\* C12: before the stop exactly one heartbeat is pending, the one for time
\* 100 ms * (number of ticks run so far), which is not in the past; the tick
\* number k (from 0) runs at 100 ms * k; in a tick the graph is built from
\* the positions and the ledger of that moment and every flow's path is
\* computed on that graph.
C12_TicksEveryPeriod ==
    /\ [](~sim.stopped =>
            /\ Cardinality(HeartbeatsPending(sim)) = 1
            /\ \A e \in HeartbeatsPending(sim) :
                 e.time = HeartbeatPeriod * sim.ticks /\ e.time >= sim.now)
    /\ [][sim'.ticks = sim.ticks + 1 =>
            /\ sim'.now = HeartbeatPeriod * sim.ticks
            /\ \A g \in {BuildGraph(sim.pos, sim.m_ledger, sim.maxRadioRange,
                                     sim.blackholeNodes, sim.defaultSnr,
                                     sim.useBlockchain)} :
                 /\ sim'.m_graph = g.m_graph
                 /\ sim'.m_weights = g.m_weights
                 /\ \A f \in DOMAIN sim.activeFlows :
                      sim'.lastPaths[f] =
                        CalculatePath(g.m_graph, g.m_weights,
                                      sim.activeFlows[f][1], sim.activeFlows[f][2])]_vars

\* The second tick has run at 100 ms on the graph of the moved node 2 and has
\* left the tick for 200 ms pending.
C12_Witness ==
    /\ sim.ticks = 2
    /\ sim.now = HeartbeatPeriod
    /\ ~sim.stopped
    /\ {e.time : e \in HeartbeatsPending(sim)} = {2 * HeartbeatPeriod}
    /\ <<0, 2>> \in DOMAIN sim.m_weights
    /\ sim.lastPaths[1] = <<0, 2>>

\* The stop event has been run: it is no longer in the queue.
StopRan(w) == w.nextUid > 0 /\ \A e \in w.events : e.kind # "stop"

HeartbeatStage(w, k) ==
    LET g == BuildGraph(w.pos, w.m_ledger, w.maxRadioRange, w.blackholeNodes,
                        w.defaultSnr, w.useBlockchain)
    IN  InstallFlows([w EXCEPT !.m_graph = g.m_graph,
                               !.m_weights = g.m_weights,
                               !.activeFlows = SubSeq(@, 1, k)], 1)
IsTick == sim'.ticks = sim.ticks + 1
IsCallback == sim'.ticks = sim.ticks /\ sim'.pos = sim.pos /\ calls' = calls + 1

\* C31: a step of the run is one whole heartbeat or one whole callback.  A
\* heartbeat leaves the ledger (and the count of trust penalties) as it is,
\* and the ledger is the same from BuildGraph through the installation of
\* every flow; a callback leaves the graph, the weights, the paths and every
\* route table as they are.  No step changes both the ledger and the graph
\* or a route table.
C31_DisjointEffects ==
    [][/\ IsTick =>
            /\ sim'.m_ledger = sim.m_ledger
            /\ sim'.g_trustPenalties = sim.g_trustPenalties
            /\ \A k \in 0 .. Len(sim.activeFlows) :
                 HeartbeatStage(Dequeue(sim), k).m_ledger = sim.m_ledger
            /\ HeartbeatStage(Dequeue(sim), Len(sim.activeFlows)).routes = sim'.routes
       /\ IsCallback =>
            /\ sim'.m_graph = sim.m_graph
            /\ sim'.m_weights = sim.m_weights
            /\ sim'.routes = sim.routes
            /\ sim'.lastPaths = sim.lastPaths
            /\ sim'.events = sim.events
       /\ sim'.m_ledger # sim.m_ledger =>
            /\ IsCallback
            /\ sim'.m_graph = sim.m_graph /\ sim'.routes = sim.routes]_vars
\* A heartbeat, then an L3 drop that penalized the link 0-1, then the next
\* heartbeat: routes are installed from a graph that shows the penalty.
C31_Witness ==
    /\ sim.ticks = 2
    /\ sim.useBlockchain
    /\ <<0, 1>> \in DOMAIN sim.m_ledger
    /\ sim.m_ledger[<<0, 1>>].drops = 1
    /\ sim.m_weights[<<0, 1>>] = 1000050
    /\ sim.routes[0] # <<>>

\* ------------------------------------------ claims on the evidence callbacks
\* The context has the form "/NodeList/<digits>/..." and the digits are the
\* decimal number n (n below 10, leading zeros allowed).
NamesNode(context, n) ==
    \A a \in {Find(context, "NL", 1)} :
      \A b \in {Find(context, "/", a + 1)} :
        /\ a > 0
        /\ b > a + 1
        /\ \A i \in (a + 1) .. (b - 1) : context[i] \in DOMAIN DigitVal
        /\ \A i \in (a + 1) .. (b - 2) : context[i] = "0"
        /\ DigitVal[context[b - 1]] = n
\* The keys of the records that l1 has and l0 has not or has differently.
Touched(l0, l1) == {k \in DOMAIN l1 : k \notin DOMAIN l0 \/ l1[k] # l0[k]}
\* The keys of the pairs of r and another node less than maxRadioRange away.
NeighbourKeys(w, r) ==
    {<<Min(i, r), Max(i, r)>> :
       i \in {n \in (DOMAIN w.pos) \ {r} :
                Dist2(w.pos[n], w.pos[r]) < w.maxRadioRange * w.maxRadioRange}}
\* The step is the successful reception or the PHY drop reported with context.
IsPhyEvent(w0, w1, context) ==
    w1 = PhyRxEndCallback(w0, context) \/ w1 = PhyRxDropCallback(w0, context)

\* The ledger after the callback differs from the ledger of w in the records
\* of keys, which it has created or modified, and in nothing else.
TouchesOnly(w, after, keys) ==
    /\ DOMAIN w.m_ledger \subseteq DOMAIN after.m_ledger
    /\ Touched(w.m_ledger, after.m_ledger) = keys

\* C22: in every reachable state, a reception or a PHY drop at a node that
\* is the destination of no flow, and an L3 drop of a packet whose source
\* address belongs to no node, create or modify the records of the pairs of
\* the receiver and the nodes less than max_range away from it, and leave
\* every other record as it was.
C22_FanOutInRangeOnly ==
    \A r \in DOMAIN sim.pos :
        /\ (\A f \in DOMAIN sim.activeFlows : sim.activeFlows[f][2] # r) =>
             /\ TouchesOnly(sim, PhyRxEndCallback(sim, NodeContext(IdText(r))),
                            NeighbourKeys(sim, r))
             /\ TouchesOnly(sim, PhyRxDropCallback(sim, NodeContext(IdText(r))),
                            NeighbourKeys(sim, r))
        /\ \A srcAddr \in SrcAddrs :
             (\A i \in DOMAIN sim.pos : GetAddress(i) # srcAddr) =>
               TouchesOnly(sim, Ipv4L3DropCallback(sim, NodeContext(IdText(r)), srcAddr),
                           NeighbourKeys(sim, r))

\* A reception at node 0, with node 2 out of its range, and a PHY drop at
\* node 1: the records of 0-1 and 1-2, none of 0-2.
C22_Witness ==
    /\ sim.pos = LinePos
    /\ sim.g_phyDrops = 1
    /\ sim.g_l3Drops = 0
    /\ DOMAIN sim.m_ledger = {<<0, 1>>, <<1, 2>>}
    /\ sim.m_ledger[<<0, 1>>].drops = 1
    /\ sim.m_ledger[<<0, 1>>].movingAvgSnr > 0
    /\ sim.m_ledger[<<1, 2>>].drops = 1
    /\ sim.m_ledger[<<1, 2>>].movingAvgSnr = 0

\* C23: in every reachable state, a reception or a PHY drop at the
\* destination of a flow creates or modifies the record of the pair of the
\* flow's source and the receiver and leaves every other record as it was,
\* whatever nodes are in range of the receiver.
C23_KnownSourceOnly ==
    \A f \in DOMAIN sim.activeFlows :
      \A r \in {sim.activeFlows[f][2]} :
        \A key \in {<<Min(sim.activeFlows[f][1], r), Max(sim.activeFlows[f][1], r)>>} :
          /\ TouchesOnly(sim, PhyRxEndCallback(sim, NodeContext(IdText(r))), {key})
          /\ TouchesOnly(sim, PhyRxDropCallback(sim, NodeContext(IdText(r))), {key})

\* A reception and a PHY drop at node 2, the destination of the flow from
\* node 0: the record of 0-2 is the only one, though node 1 is in range of
\* node 2 and node 0 is not.
C23_Witness ==
    /\ sim.pos = LinePos
    /\ sim.g_phyDrops = 1
    /\ sim.g_l3Drops = 0
    /\ DOMAIN sim.m_ledger = {<<0, 2>>}
    /\ sim.m_ledger[<<0, 2>>].drops = 1
    /\ sim.m_ledger[<<0, 2>>].movingAvgSnr > 0

\* The ledger and the six counters.
Tally(w) ==
    <<w.m_ledger, w.g_phyDrops, w.g_l3Drops, w.g_blackholeL3Drops,
      w.g_routeSkips, w.g_trustPenalties, w.g_maliciousDrops>>

\* C24: an event whose context names no node of the container (no id in it,
\* or an id that is the number of nodes or above) leaves the ledger and the
\* six counters as they were, and every record of the ledger is the record
\* of two nodes of the container.
C24_InvalidIdIgnored ==
    /\ [][\A context \in Contexts :
            (/\ \A n \in DOMAIN sim.pos : ~NamesNode(context, n)
             /\ \/ IsPhyEvent(sim, sim', context)
                \/ \E srcAddr \in SrcAddrs :
                      sim' = Ipv4L3DropCallback(sim, context, srcAddr))
            => Tally(sim') = Tally(sim)]_vars
    /\ [](\A k \in DOMAIN sim.m_ledger :
             k[1] \in DOMAIN sim.pos /\ k[2] \in DOMAIN sim.pos)

\* C25: no callback raises: whatever the context strings of the events, the
\* program is not terminated by an exception.
C25_CallbacksNeverRaise == ~sim.aborted

\* --------------------------------------------- claims on the path solver
\* The simple paths of graph that extend path to dest.
RECURSIVE SimplePaths(_, _, _)
SimplePaths(graph, path, dest) ==
    IF path[Len(path)] = dest THEN {path}
    ELSE UNION {SimplePaths(graph, Append(path, v), dest) :
                  v \in {n \in graph[path[Len(path)]] :
                           \A i \in DOMAIN path : path[i] # n}}
RECURSIVE PathWeight(_, _)
PathWeight(weights, path) ==
    IF Len(path) < 2 THEN 0
    ELSE weights[<<path[1], path[2]>>] + PathWeight(weights, Tail(path))

\* C9: for source and destination in the graph, CalculatePath returns a
\* path from source to destination along edges that visits no node twice
\* and weighs no more than any path between them, and returns the empty path
\* exactly when there is no path; in the Baseline and in the Proposed graph.
C9_LeastCostPath ==
    result # <<>> =>
      \A q \in {result.baseline, result.proposed} :
        (result.source \in DOMAIN q.m_graph /\ result.dest \in DOMAIN q.m_graph)
        => \A all \in {SimplePaths(q.m_graph, <<result.source>>, result.dest)} :
             /\ (q.path = <<>>) <=> (all = {})
             /\ q.path # <<>> =>
                  /\ q.path \in all
                  /\ \A p \in all :
                       PathWeight(q.m_weights, q.path) <= PathWeight(q.m_weights, p)

\* The diamond with a penalized link 0-1: the Proposed path goes round it,
\* the Baseline path goes over it.
C9_Witness ==
    /\ result # <<>>
    /\ result.baseline.path = <<0, 1, 3>>
    /\ result.proposed.path = <<0, 2, 3>>
    /\ GetTrust(sim.m_ledger, 0, 1) < GetTrust(sim.m_ledger, 0, 2)

\* C7: over the same positions, range and ledger, CalculatePath finds a
\* path in the Proposed graph whenever it finds one in the Baseline graph.
C7_ConnectivityPreserved ==
    result # <<>> =>
      (result.baseline.path # <<>> => result.proposed.path # <<>>)

\* The chain with every link at the trust floor: both modes return the only
\* path.
C7_Witness ==
    /\ result # <<>>
    /\ \A e \in {<<0, 1>>, <<1, 2>>, <<2, 3>>} :
         GetTrust(sim.m_ledger, e[1], e[2]) = TrustFloor
    /\ result.baseline.path = <<0, 1, 2, 3>>
    /\ result.proposed.path = <<0, 1, 2, 3>>

\* The paths of all that weigh the least.
LeastPaths(weights, all) ==
    {p \in all : \A o \in all : PathWeight(weights, p) <= PathWeight(weights, o)}

C8_BlackholeSetNotConsulted ==
    /\ sim.m_ledger = twin.m_ledger
    /\ sim.m_graph = twin.m_graph
    /\ sim.m_weights = twin.m_weights
    /\ sim.lastPaths = twin.lastPaths

\* After a drop and a heartbeat the runs differ in the routes installed and
\* in route_skips.
C8_Witness ==
    /\ sim.blackholeNodes # twin.blackholeNodes
    /\ sim.useBlockchain
    /\ \E k \in DOMAIN sim.m_ledger : sim.m_ledger[k].trust < TrustOne
    /\ sim.lastPaths[1] # <<>>
    /\ sim.routes # twin.routes
    /\ sim.g_routeSkips > twin.g_routeSkips

\* ---------------------------------- claims on runs with persistent droppers
\* The paths of the graph for flow f that visit no blackhole.
CleanPaths(w, f) ==
    IF w.activeFlows[f][1] \notin DOMAIN w.m_graph THEN {}
    ELSE {p \in SimplePaths(w.m_graph, <<w.activeFlows[f][1]>>, w.activeFlows[f][2]) :
            \A i \in DOMAIN p : p[i] \notin w.blackholeNodes}
\* The heartbeats by which two drops have pushed a link to the trust floor.
IsolationTicks == MaxTicks - 1

\* C14: in Proposed mode, once IsolationTicks heartbeats have run with a
\* drop reported in every period in which the path crossed a blackhole, the
\* computed path of a flow crosses no blackhole if the graph has a path
\* between the flow's endpoints that visits none.
C14_BlackholeAvoided ==
    \A f \in DOMAIN sim.activeFlows :
        (/\ sim.useBlockchain
         /\ sim.ticks >= IsolationTicks
         /\ CleanPaths(sim, f) # {})
        => ~CrossesBlackhole(sim, f)

\* C15 as stated: in S4 with node 1 malicious, Baseline computes [0,1,3]
\* and Proposed, after the evidence of IsolationTicks heartbeats, [0,2,3].
C15_DetourTaken ==
    (sim.pos = ChainPos /\ sim.blackholeNodes = {1}) =>
        /\ (~sim.useBlockchain /\ sim.ticks >= 1) => sim.lastPaths[1] = <<0, 1, 3>>
        /\ (sim.useBlockchain /\ sim.ticks >= IsolationTicks)
             => sim.lastPaths[1] = <<0, 2, 3>>

\* C15, amended: in S4 the pairs in range are 0-1, 1-2 and 2-3 only, and
\* every heartbeat computes [0,1,2,3] in either mode, whatever the evidence.
C15_ChainHasOnePath ==
    (sim.pos = ChainPos /\ sim.blackholeNodes = {1} /\ sim.ticks >= 1) =>
        /\ DOMAIN sim.m_weights =
             {<<0, 1>>, <<1, 0>>, <<1, 2>>, <<2, 1>>, <<2, 3>>, <<3, 2>>}
        /\ sim.lastPaths[1] = <<0, 1, 2, 3>>

\* S4 in Proposed mode after three heartbeats: the link 0-1 is at the trust
\* floor and the path still runs over it.
C15_Witness ==
    /\ sim.pos = ChainPos
    /\ sim.blackholeNodes = {1}
    /\ sim.useBlockchain
    /\ sim.ticks >= IsolationTicks
    /\ GetTrust(sim.m_ledger, 0, 1) = TrustFloor
    /\ sim.lastPaths[1] = <<0, 1, 2, 3>>

\* ------------------------------------------- claims on the topology builder
\* C17: BuildGraph gives the nodes i and j an edge, in both directions and
\* with one weight, exactly when the square of their distance is below the
\* square of max_range; in either mode, for every ledger and blackhole set.
C17_EdgesByDistanceOnly ==
    result # <<>> =>
      \A q \in {result.baseline, result.proposed} :
        \A i \in DOMAIN sim.pos, j \in DOMAIN sim.pos :
          /\ <<i, j>> \in DOMAIN q.m_weights
               <=> (i # j /\ Dist2(sim.pos[i], sim.pos[j])
                               < sim.maxRadioRange * sim.maxRadioRange)
          /\ <<i, j>> \in DOMAIN q.m_weights <=>
               (i \in DOMAIN q.m_graph /\ j \in q.m_graph[i])
          /\ <<i, j>> \in DOMAIN q.m_weights =>
               q.m_weights[<<i, j>>] = q.m_weights[<<j, i>>]

\* The rim with blackholes 1 and 2 and their link at the trust floor: the
\* link 1-2 is the only edge, the pairs at exactly 70 m have none.
C17_Witness ==
    /\ result # <<>>
    /\ sim.pos = RimPos
    /\ sim.blackholeNodes = {1, 2}
    /\ GetTrust(sim.m_ledger, 1, 2) = TrustFloor
    /\ DOMAIN result.proposed.m_weights = {<<1, 2>>, <<2, 1>>}
    /\ DOMAIN result.baseline.m_weights = {<<1, 2>>, <<2, 1>>}

\* C18: in the Proposed graph the weight of every edge is alpha / snr +
\* beta / trust for the snr and the trust the ledger gives for the link; it
\* is above 0 and below infinity, and its trust term is at least beta and at
\* most beta / 0.3.
C18_ProposedWeight ==
    result # <<>> =>
      \A e \in DOMAIN result.proposed.m_weights :
        \A snrTerm \in {(Alpha * SnrDen * WeightOne)
                          \div GetSnr(sim.m_ledger, e[1], e[2])} :
          \A trustTerm \in {(Beta * TrustOne * WeightOne)
                              \div GetTrust(sim.m_ledger, e[1], e[2])} :
            /\ result.proposed.m_weights[e] = snrTerm + trustTerm
            /\ result.proposed.m_weights[e] > 0
            /\ result.proposed.m_weights[e] < Infinity
            /\ trustTerm >= Beta * WeightOne
            /\ trustTerm <= (Beta * TrustOne * WeightOne) \div TrustFloor

\* The chain with the link 0-1 at the floor after a reception at 50 m
\* (average 4.5) and a fresh link 1-2: the weights 1666.888 and 500.050.
C18_Witness ==
    /\ result # <<>>
    /\ sim.pos = ChainPos
    /\ result.proposed.m_weights[<<0, 1>>] = 1666888
    /\ result.proposed.m_weights[<<1, 2>>] = 500050

\* C19: in the Baseline graph every edge weighs 1.0 whatever the ledger
\* holds; the path computed has no more hops than any path between the two
\* nodes and is the path computed over the same positions with no evidence
\* at all.
C19_BaselineHopCount ==
    result # <<>> =>
      /\ \A e \in DOMAIN result.baseline.m_weights :
           result.baseline.m_weights[e] = WeightOne
      /\ (result.source \in DOMAIN result.baseline.m_graph
          /\ result.dest \in DOMAIN result.baseline.m_graph) =>
            \A p \in SimplePaths(result.baseline.m_graph, <<result.source>>,
                                  result.dest) :
                Len(result.baseline.path) <= Len(p)
      /\ result.baseline.path =
           Query([sim EXCEPT !.m_ledger = EmptyFun], FALSE,
                 result.source, result.dest).path

\* The diamond with the links 0-1 and 1-3 at the floor: Baseline keeps the
\* two-hop path over node 1.
C19_Witness ==
    /\ result # <<>>
    /\ sim.pos = DiamondPos
    /\ GetTrust(sim.m_ledger, 0, 1) = TrustFloor
    /\ GetTrust(sim.m_ledger, 1, 3) = TrustFloor
    /\ result.baseline.path = <<0, 1, 3>>
    /\ result.baseline.m_weights[<<0, 1>>] = WeightOne

\* ---------------------------------------------- claims on missing endpoints
\* C20: a heartbeat that builds a graph without the source or without the
\* destination of a flow completes, records the empty path for the flow and
\* leaves every routing table and every counter as it was.
C20_MissingEndpoint ==
    [][sim'.ticks = sim.ticks + 1 =>
         \A f \in DOMAIN sim.activeFlows :
           (\/ sim.activeFlows[f][1] \notin DOMAIN sim'.m_graph
            \/ sim.activeFlows[f][2] \notin DOMAIN sim'.m_graph)
           => /\ sim'.lastPaths[f] = <<>>
              /\ ~sim'.aborted
              /\ Cardinality(HeartbeatsPending(sim')) = 1
              /\ sim'.routes = sim.routes
              /\ sim'.g_routeSkips = sim.g_routeSkips
              /\ sim'.g_maliciousDrops = sim.g_maliciousDrops
              /\ sim'.g_trustPenalties = sim.g_trustPenalties
              /\ sim'.g_l3Drops = sim.g_l3Drops
              /\ sim'.g_phyDrops = sim.g_phyDrops
              /\ sim'.g_blackholeL3Drops = sim.g_blackholeL3Drops]_vars

\* Two heartbeats on the rim: the graph holds the nodes 1 and 2 only, the
\* flow 0 -> 3 has the empty path and no node has a route.
C20_Witness ==
    /\ sim.pos = RimPos
    /\ sim.ticks = 2
    /\ DOMAIN sim.m_graph = {1, 2}
    /\ sim.lastPaths[1] = <<>>
    /\ \A n \in DOMAIN sim.routes : sim.routes[n] = <<>>
    /\ sim.g_routeSkips = 0

\* ------------------------------- claims on runs with the defaultSnr option
\* default_snr - distance / 10 for the nodes i and j.
LinearSnr(w, i, j) ==
    w.defaultSnr * SnrDen - (Distance(w.pos[i], w.pos[j]) * SnrDen) \div 10
Clamp(x, lo, hi) == Min(hi, Max(lo, x))
\* Every UpdateMetric call of a reception at any node, in the state w, has
\* the SNR that expected gives for the pair, and the record of the pair gets
\* that SNR into its average.
ReceptionsPass(w, expected) ==
    \A r \in DOMAIN w.pos :
      \A ups \in {RxEndUpdates(w, r)} :
        \A after \in {PhyRxEndCallback(w, NodeContext(IdText(r)))} :
          /\ ups # <<>>
          /\ \A c \in DOMAIN ups :
               \A key \in {<<Min(ups[c].src, r), Max(ups[c].src, r)>>} :
                 /\ ups[c].dst = r
                 /\ ups[c].snr = expected[<<ups[c].src, r>>]
                 /\ after.m_ledger[key].movingAvgSnr
                      = (3 * expected[<<ups[c].src, r>>]
                         + 7 * Materialized(w.m_ledger, key).movingAvgSnr) \div 10

\* C28 as stated: the SNR a reception passes to the ledger is default_snr -
\* distance / 10 clamped into [5.0, default_snr]: not below 5.0 and not
\* above default_snr.
C28_ClampedIntoInterval ==
    /\ ReceptionsPass(sim, [p \in (DOMAIN sim.pos) \X (DOMAIN sim.pos) |->
                             Clamp(LinearSnr(sim, p[1], p[2]),
                                   5 * SnrDen, sim.defaultSnr * SnrDen)])
    /\ \A r \in DOMAIN sim.pos : \A ups \in {RxEndUpdates(sim, r)} :
         \A c \in DOMAIN ups :
           5 * SnrDen <= ups[c].snr /\ ups[c].snr <= sim.defaultSnr * SnrDen

\* C28, amended: the SNR a reception passes to the ledger is the larger of
\* 5.0 and default_snr - distance / 10; it is not below 5.0 and not above
\* the larger of 5.0 and default_snr; with default_snr of 5.0 or more it is
\* the clamp into [5.0, default_snr], with less it is 5.0.
C28_FlooredAtFive ==
    /\ ReceptionsPass(sim, [p \in (DOMAIN sim.pos) \X (DOMAIN sim.pos) |->
                             Max(5 * SnrDen, LinearSnr(sim, p[1], p[2]))])
    /\ \A r \in DOMAIN sim.pos : \A ups \in {RxEndUpdates(sim, r)} :
         \A c \in DOMAIN ups :
           /\ 5 * SnrDen <= ups[c].snr
           /\ ups[c].snr <= Max(5, sim.defaultSnr) * SnrDen
           /\ IF sim.defaultSnr >= 5
              THEN ups[c].snr = Clamp(LinearSnr(sim, ups[c].src, ups[c].dst),
                                      5 * SnrDen, sim.defaultSnr * SnrDen)
              ELSE ups[c].snr = 5 * SnrDen

\* With defaultSnr 20.0: a reception at node 2 from the flow's source 160 m
\* away has passed 5.0 (average 1.5), a reception over the 50 m of the link
\* 0-1 has passed 15.0 (average 4.5).
C28_Witness ==
    /\ sim.defaultSnr = 20
    /\ sim.pos[2] = <<160, 0>>
    /\ DOMAIN sim.m_ledger = {<<0, 1>>, <<0, 2>>}
    /\ sim.m_ledger[<<0, 2>>].movingAvgSnr = (15 * SnrDen) \div 10
    /\ sim.m_ledger[<<0, 1>>].movingAvgSnr = (45 * SnrDen) \div 10

\* C29: in Proposed mode a heartbeat gives an edge whose pair has no record,
\* or a record whose average is still 0, the weight alpha / default_snr +
\* beta / trust for the configured default_snr, the trust being 1.0 for a
\* pair without a record.
C29_ConfiguredDefaultSnr ==
    [][(sim'.ticks = sim.ticks + 1 /\ sim.useBlockchain) =>
         \A e \in DOMAIN sim'.m_weights :
           \A key \in {<<Min(e[1], e[2]), Max(e[1], e[2])>>} :
             Materialized(sim.m_ledger, key).movingAvgSnr = 0 =>
               sim'.m_weights[e]
                 = (Alpha * SnrDen * WeightOne) \div (sim.defaultSnr * SnrDen)
                   + (Beta * TrustOne * WeightOne)
                       \div Materialized(sim.m_ledger, key).trust]_vars

\* C30: a heartbeat leaves the positions and the ledger as they are and
\* makes the graph their projection: the edges are the pairs less than
\* max_range apart at this tick, whatever the graph of the tick before
\* held, and the weight of an edge is 1.0 in Baseline and in Proposed
\* alpha / snr + beta / trust for the average of the ledger and the trust
\* max(0.3, 0.5^k), k the number of penalized drops reported for the pair
\* before the tick.
C30_GraphIsProjection ==
    [][sim'.ticks = sim.ticks + 1 =>
         /\ sim'.pos = sim.pos
         /\ sim'.m_ledger = sim.m_ledger
         /\ \A i \in DOMAIN sim.pos, j \in DOMAIN sim.pos :
              \A near \in {i # j /\ Dist2(sim.pos[i], sim.pos[j])
                                       < sim.maxRadioRange * sim.maxRadioRange} :
                /\ (<<i, j>> \in DOMAIN sim'.m_weights) <=> near
                /\ (i \in DOMAIN sim'.m_graph /\ j \in sim'.m_graph[i]) <=> near
         /\ \A e \in DOMAIN sim'.m_weights :
              \A key \in {<<Min(e[1], e[2]), Max(e[1], e[2])>>} :
                sim'.m_weights[e]
                  = IF sim.useBlockchain
                    THEN (Alpha * SnrDen * WeightOne) \div GetSnr(sim.m_ledger, e[1], e[2])
                         + (Beta * TrustOne * WeightOne)
                             \div TrustAfter(HistOf(hist, key).penalties)
                    ELSE WeightOne]_vars

\* Proposed mode: after the first tick an L3 drop penalized the link 0-1 and
\* node 2 moved out of the range of node 1; the second tick has dropped the
\* edge 1-2 and weighs the edge 0-1 with the trust 0.5.
C30_Witness ==
    /\ sim.useBlockchain
    /\ sim.ticks = 2
    /\ sim.pos[2] = <<160, 0>>
    /\ HistOf(hist, <<0, 1>>).penalties = 1
    /\ DOMAIN sim.m_weights = {<<0, 1>>, <<1, 0>>}
    /\ sim.m_weights[<<0, 1>>] = 1000050
    /\ sim.lastPaths[1] = <<>>

\* ------------------------------------------ claims on the selection at startup
\* The endpoints of the flows, in the order source, destination, flow by flow.
RECURSIVE Endpoints(_)
Endpoints(flows) ==
    IF flows = <<>> THEN <<>>
    ELSE <<Head(flows)[1], Head(flows)[2]>> \o Endpoints(Tail(flows))

\* C32: at every point of the selection the endpoints of the flows chosen so
\* far are pairwise distinct nodes (so no node is an endpoint twice and a
\* flow's source is not its destination) outside the blackhole set, and once
\* the malicious nodes are selected the blackhole set has
\* min(numBlackholes, numNodes) members, all of them nodes.
C32_FlowEndpoints ==
    \A ends \in {Endpoints(sim.activeFlows)} :
        /\ \A a, b \in DOMAIN ends : a # b => ends[a] # ends[b]
        /\ \A a \in DOMAIN ends :
             /\ ends[a] \in 0 .. (sim.numNodes - 1)
             /\ ends[a] \notin sim.blackholeNodes
        /\ \A f \in DOMAIN sim.activeFlows :
             sim.activeFlows[f][1] # sim.activeFlows[f][2]
        /\ sim.blackholeNodes \subseteq 0 .. (sim.numNodes - 1)
        /\ sim.pc # "blackholes" =>
             Cardinality(sim.blackholeNodes) = Min(sim.numBlackholes, sim.numNodes)
        /\ sim.pc = "done" =>
             Len(sim.activeFlows)
               = Min(sim.numFlows, (sim.numNodes - Cardinality(sim.blackholeNodes)) \div 2)
\* Four nodes, one of them malicious, and three flows asked for: one flow is
\* chosen and the selection ends with one node left over.
C32_Witness ==
    /\ sim.pc = "done"
    /\ sim.numNodes = 4 /\ sim.numFlows = 3
    /\ Cardinality(sim.blackholeNodes) = 1
    /\ Len(sim.activeFlows) = 1
    /\ Cardinality(sim.availableNodes) = 1

\* --------------------------------------------------- claims on the counters
\* The four counters of drops and skips, as a record.
DropCounters(w) ==
    [l3 |-> w.g_l3Drops, bh |-> w.g_blackholeL3Drops,
     skips |-> w.g_routeSkips, malicious |-> w.g_maliciousDrops]
\* The counters c raised by the given amounts.
Raised(c, l3, bh, skips) ==
    [l3 |-> c.l3 + l3, bh |-> c.bh + bh, skips |-> c.skips + skips,
     malicious |-> c.malicious + bh + skips]

\* C34: in every reachable state malicious_drops = route_skips +
\* blackhole_l3_drops and blackhole_l3_drops <= l3_drops.  An L3 drop whose
\* context passes the node check adds one to l3_drops and, exactly when the
\* dropping node is in the blackhole set, one to blackhole_l3_drops and to
\* malicious_drops; a heartbeat adds its route skips to route_skips and to
\* malicious_drops; nothing else changes the four counters.
C34_MaliciousDropsSum ==
    /\ [](/\ sim.g_maliciousDrops = sim.g_routeSkips + sim.g_blackholeL3Drops
          /\ sim.g_blackholeL3Drops <= sim.g_l3Drops
          /\ \A context \in Contexts :
               \A p \in {ParseNodeIdFromContext(context)} :
                 \A srcAddr \in SrcAddrs :
                   DropCounters(Ipv4L3DropCallback(sim, context, srcAddr))
                     = IF p.threw \/ InvalidNode(sim, p.id)
                       THEN DropCounters(sim)
                       ELSE Raised(DropCounters(sim), 1,
                                   IF p.id \in sim.blackholeNodes THEN 1 ELSE 0, 0)
          /\ \A context \in Contexts :
               /\ DropCounters(PhyRxEndCallback(sim, context)) = DropCounters(sim)
               /\ DropCounters(PhyRxDropCallback(sim, context)) = DropCounters(sim))
    /\ [][IF IsTick
          THEN DropCounters(sim') = Raised(DropCounters(sim), 0, 0, SkipCount(sim'))
          ELSE /\ sim'.g_routeSkips = sim.g_routeSkips
               /\ sim'.g_l3Drops - sim.g_l3Drops \in {0, 1}
               /\ sim'.g_blackholeL3Drops - sim.g_blackholeL3Drops \in {0, 1}]_vars
\* Blackhole 1 was skipped by a heartbeat, then dropped a packet at L3, and
\* node 0 dropped one as well.
C34_Witness ==
    /\ sim.blackholeNodes = {1}
    /\ sim.g_routeSkips = 1
    /\ sim.g_blackholeL3Drops = 1
    /\ sim.g_l3Drops = 2
    /\ sim.g_maliciousDrops = 2

\* --------------------------------------------- claims on the classification
\* C35: IsBlackhole(n) is false for every node n in every reachable state of
\* a run: no record has a trust below 0.3, so no record counts as a
\* low-trust link, whatever events were delivered.
C35_NeverClassified ==
    /\ \A k \in DOMAIN sim.m_ledger : ~IsLowTrust(sim.m_ledger[k].trust)
    /\ \A n \in DOMAIN sim.pos :
         /\ ~IsBlackhole(sim.m_ledger, n)
         /\ CountLinks(sim.m_ledger, DOMAIN sim.m_ledger, n)[1] = 0
\* Blackhole 1 has dropped three packets of node 0 in Proposed mode: its only
\* record is at the floor and it is not classified.
C35_Witness ==
    /\ sim.useBlockchain
    /\ sim.blackholeNodes = {1}
    /\ DOMAIN sim.m_ledger = {<<0, 1>>}
    /\ sim.m_ledger[<<0, 1>>].drops = 3
    /\ sim.m_ledger[<<0, 1>>].trust = TrustFloor
    /\ sim.g_blackholeL3Drops = 3
    /\ ~IsBlackhole(sim.m_ledger, 1)

\* ----------------------------------------------- claims on trust penalties
\* The sum of the drops fields of the records of the given keys.
RECURSIVE SumDrops(_, _)
SumDrops(l, keys) ==
    IF keys = {} THEN 0
    ELSE LET k == CHOOSE x \in keys : TRUE
         IN  l[k].drops + SumDrops(l, keys \ {k})
TotalDrops(w) == SumDrops(w.m_ledger, DOMAIN w.m_ledger)
\* The records whose drops field a step has changed.
DropsChanged(l0, l1) ==
    {k \in DOMAIN l1 : l1[k].drops # Materialized(l0, k).drops}

\* C36: in Proposed mode trust_penalties equals the sum of the drops fields of
\* all records in every reachable state, in Baseline mode it stays 0.  A drop
\* event at a node (PHY or L3) makes one UpdateMetric call per link it names,
\* each call adds one to the drops of one record, in either mode, and one to
\* trust_penalties in Proposed mode only; a step raises trust_penalties by
\* the number of records it has penalized, each of them once.
C36_PenaltiesEqualDrops ==
    /\ [](/\ sim.g_trustPenalties
               = IF sim.useBlockchain THEN TotalDrops(sim) ELSE 0
          /\ \A r \in DOMAIN sim.pos :
               \A ups \in {RxDropUpdates(sim, r)} :
                 \A after \in {PhyRxDropCallback(sim, NodeContext(IdText(r)))} :
                   /\ TotalDrops(after) = TotalDrops(sim) + Len(ups)
                   /\ Cardinality(DropsChanged(sim.m_ledger, after.m_ledger)) = Len(ups)
                   /\ after.g_trustPenalties
                        = sim.g_trustPenalties + (IF sim.useBlockchain THEN Len(ups) ELSE 0)
          /\ \A r \in DOMAIN sim.pos : \A srcAddr \in SrcAddrs :
               \A ups \in {L3DropUpdates(sim, r, srcAddr)} :
                 \A after \in {Ipv4L3DropCallback(sim, NodeContext(IdText(r)), srcAddr)} :
                   /\ Len(ups) >= 1
                   /\ TotalDrops(after) = TotalDrops(sim) + Len(ups)
                   /\ Cardinality(DropsChanged(sim.m_ledger, after.m_ledger)) = Len(ups)
                   /\ after.g_trustPenalties
                        = sim.g_trustPenalties + (IF sim.useBlockchain THEN Len(ups) ELSE 0))
    /\ [][/\ \A k \in DropsChanged(sim.m_ledger, sim'.m_ledger) :
               sim'.m_ledger[k].drops = Materialized(sim.m_ledger, k).drops + 1
          /\ sim'.g_trustPenalties - sim.g_trustPenalties
               = IF sim.useBlockchain
                 THEN Cardinality(DropsChanged(sim.m_ledger, sim'.m_ledger))
                 ELSE 0]_vars
\* Proposed mode: three penalties spread over the two links of node 1, two
\* of them made by one drop event of unknown source.
C36_Witness ==
    /\ sim.useBlockchain
    /\ sim.g_trustPenalties = 3
    /\ DOMAIN sim.m_ledger = {<<0, 1>>, <<1, 2>>}
    /\ sim.m_ledger[<<0, 1>>].drops = 2
    /\ sim.m_ledger[<<1, 2>>].drops = 1
    /\ sim.g_phyDrops = 1
    /\ sim.g_l3Drops = 1

\* ------------------------------------------------ claims on the ledger keys
\* C37: every ledger record is keyed by two distinct nodes (a, b) with a < b;
\* no event creates a record of a self-pair (n, n).
C37_NoSelfPair ==
    \A k \in DOMAIN sim.m_ledger : k[1] < k[2]

\* ----------------------------------------------- claims on installed routes
\* C38: right after a heartbeat a node holds a host route for a flow's
\* destination only if it is a node of the flow's path computed in this
\* heartbeat, not the last one and not a blackhole: no route stays on a node
\* that has left the path or for a flow whose path has become empty.
C38_NoStaleRoute ==
    [][IsTick =>
         \A n \in DOMAIN sim'.routes : \A f \in DOMAIN sim'.activeFlows :
           RoutesTo(sim'.routes[n], GetAddress(sim'.activeFlows[f][2])) # <<>> =>
             /\ n \notin sim'.blackholeNodes
             /\ \E i \in 1 .. (Len(sim'.lastPaths[f]) - 1) :
                  sim'.lastPaths[f][i] = n]_vars

\* ----------------------------------------------- claims on the file bridge
IsProcessCall == sim'.m_lastResultCheck # sim.m_lastResultCheck \/ hist' # hist

\* C33: a call of ProcessBlockSimResults that returns returns the number of
\* ids it has added to the validated map, which is the number of ids it
\* counted; no id is counted twice over the run.  An id of the validated map stays in it
\* with its result, which is not empty; GetTransactionResult of an id that
\* is not in the map (one never validated) is the empty string.
C33_NewResultsCountedOnce ==
    /\ [](/\ \A i, j \in DOMAIN hist : i # j => hist[i] # hist[j]
          /\ {hist[i] : i \in DOMAIN hist} = DOMAIN sim.m_validatedTransactions
          /\ \A txId \in {IdA, IdB, IdG} :
               /\ IsTransactionValidated(sim, txId) <=> \E i \in DOMAIN hist : hist[i] = txId
               /\ IsTransactionValidated(sim, txId) <=> GetTransactionResult(sim, txId) # <<>>)
    /\ [][/\ \A txId \in DOMAIN sim.m_validatedTransactions :
               /\ IsTransactionValidated(sim', txId)
               /\ GetTransactionResult(sim', txId) = GetTransactionResult(sim, txId)
          /\ (IsProcessCall /\ ~sim'.hung) =>
               /\ result' = Cardinality((DOMAIN sim'.m_validatedTransactions)
                                        \ (DOMAIN sim.m_validatedTransactions))
               /\ result' = Len(hist') - Len(hist)
          /\ ~IsProcessCall =>
               sim'.m_validatedTransactions = sim.m_validatedTransactions]_vars
\* A was counted by the call that read the file naming it twice; a later
\* call that read the same file again returned 0.
C33_Witness ==
    /\ hist = <<IdA>>
    /\ sim.blocksimToNs3
         = FileOf(Entry(IdA, TrueText) \o <<",">> \o Entry(IdA, TrueText))
    /\ sim.m_lastResultCheck = 200
    /\ result = 0
    /\ GetTransactionResult(sim, IdA) = Entry(IdA, TrueText)
    /\ GetTransactionResult(sim, IdB) = <<>>

\* C39: no transaction id is in the pending map and in the validated map at
\* the same time.
C39_PendingValidatedDisjoint ==
    (DOMAIN sim.m_pendingTransactions) \cap (DOMAIN sim.m_validatedTransactions) = {}

====
